---- MODULE Spec2Model ----
(***************************************************************************)
(* Outside Time Tracker: the blob store (Cloudflare worker + D1 table),    *)
(* the per-identity EventCache, the SyncEngine and the web app's sync      *)
(* handlers (pushEvent, pullEvents, syncAll) over the local event log and  *)
(* the pending-upload queue.                                               *)
(*                                                                         *)
(* A ciphertext is modelled by what opening it yields: the identity whose  *)
(* encryption key sealed it and the event id inside.  Timestamps           *)
(* (created_at, lastSyncAt) and the HTTP framing of requests are not part  *)
(* of the state: an append request is the triple the store acts on         *)
(* (public key, ciphertext, signature).                                    *)
(***************************************************************************)
EXTENDS Integers, Sequences, FiniteSets, TLC

\* ---------------------------------------------------------------- bounds
Devices == {"d1", "d2"}
Identities == {"A", "B"}
MaxEvents == 2
MaxRows == 3
PageLimit == 2
MaxInflight == 2
MaxCalls == 2
MaxSeq == 4
MaxBatch == 2
MaxItems == 4
MaxLoads == 2
MaxStoreRows == 4
MaxAppendRows == 2
MaxFold == 4
MaxNow == 3
MaxSeconds == 130
MaxMessage == 2

EventIds == 1..MaxEvents
Slots == {"P", "S", "E"}

VARIABLES
    dbEvents,     \* D1 table `events`: rows (public_key, seq, ciphertext), in insertion order
    nextId,       \* next fresh event id (generateId)
    evData,       \* content of every event created so far, by id
    identity,     \* per device: publicKeyHex of the current (and saved) identity
    pendingKeyImport, \* per device: the deferred key import, "none" when there is none
    showMergePrompt,  \* per device: the merge prompt is shown
    loadCall,     \* the latest page load: its number and the key in the URL hash
    localOrder,   \* per device: ot:local:eventOrder
    pendingIds,   \* per device: ot:local:pending
    cache,        \* per device, per public key: EventCache items and lastSeq
    pushTask,     \* per device, per event: the pushEvent(event) call in flight
    syncTask,     \* per device: the syncAll() call in flight
    pullTask,     \* per device, per slot: the pullEvents() call in flight
    syncCalls,    \* number of pullEvents() and syncAll() calls made so far, on all devices
    cacheCall,    \* the latest EventCache call issued by the cache driver
    storeCall,    \* the latest request handled by the worker and its response
    foldLog,      \* the event list handed to reconstructSessions by the session driver
    pureCall,     \* the latest call of a function of the function driver and its result
    now,          \* Math.floor(Date.now() / 1000)
    activeTimer,  \* per device: ot:local:activeTimer, the running timer's timer_start
    localItem     \* per device, per event id: the stored event, ot:local:event:<id>

\* the variables only the component drivers write
driverVars == <<storeCall, foldLog, pureCall>>

timerVars == <<now, activeTimer, localItem>>

vars == <<dbEvents, nextId, evData, identity, pendingKeyImport, showMergePrompt, loadCall, localOrder, pendingIds, cache,
          pushTask, syncTask, pullTask, syncCalls, cacheCall, driverVars, timerVars>>

\* ---------------------------------------------------------------- helpers
Range(s) == {s[i] : i \in 1..Len(s)}

MaxOf(S) == CHOOSE x \in S : \A y \in S : y <= x

RECURSIVE SeqOfSet(_)
\* ascending enumeration of a set of rows with distinct seq (ORDER BY seq ASC)
SeqOfSet(S) ==
    IF S = {} THEN <<>>
    ELSE LET m == CHOOSE r \in S : \A q \in S : r.seq <= q.seq
         IN <<m>> \o SeqOfSet(S \ {m})

\* ---------------------------------------------------------------- crypto
\* plaintexts are event ids (the JSON text of that event) or one of these two
\* a plaintext that JSON.parse rejects
NotJson == -1

\* the plaintext "null", which JSON.parse accepts
JsonNull == -2

\* the value null
NullValue == -3

\* encryptEvent(encodeEvent(event), identity): a sealed box for the identity
EncryptEvent(ev, pk) == [key |-> pk, ev |-> ev]

\* a stored ciphertext string that is not base64
NotBase64 == [key |-> "none", ev |-> 0]

\* decodeBase64(serverEvent.ciphertext) throws on a string that is not base64
DecodeBase64Throws(ct) == ct = NotBase64

\* decryptEvent(sealed, identity): the plaintext, or 0 (null) when the box does not open
DecryptEvent(ct, pk) == IF ct.key = pk THEN ct.ev ELSE 0

\* decodeEvent: JSON.parse throws on text that is not JSON
DecodeEventThrows(plaintext) == plaintext = NotJson

\* decodeEvent: JSON.parse(json) as OutsideEvent, the parsed value is not inspected
DecodeEvent(plaintext) == IF plaintext = JsonNull THEN NullValue ELSE plaintext

\* signForAppend: detached signature over "{publicKeyHex}:{ciphertextBase64}"
SignForAppend(pk, ct, signer) == [signer |-> signer, pk |-> pk, ct |-> ct]

VerifySignatureBug(pk, ct, sig) ==
    /\ sig.signer = pk
    /\ sig.pk = pk

\* verifySignature(publicKeyHex, ciphertextBase64, signatureBase64)
VerifySignature(pk, ct, sig) ==
    /\ sig.signer = pk
    /\ sig.pk = pk
    /\ sig.ct = ct

IsValidPublicKeyBug(pk) == TRUE

\* isValidPublicKey: the identities of the model are well-formed keys
IsValidPublicKey(pk) == pk \in Identities

\* ---------------------------------------------------------------- store
RowsOf(db, pk) == {db[i] : i \in {j \in 1..Len(db) : db[j].public_key = pk}}

MaxSeqOfBug(db, pk) ==
    IF db = <<>> THEN 0 ELSE MaxOf({db[i].seq : i \in 1..Len(db)})

\* SELECT COALESCE(MAX(seq), 0) FROM events WHERE public_key = ?
MaxSeqOf(db, pk) ==
    IF RowsOf(db, pk) = {} THEN 0 ELSE MaxOf({r.seq : r \in RowsOf(db, pk)})

\* ApiClient.append: the request the store receives
AppendRequest(pk, ct) ==
    [publicKey |-> pk, body |-> ct, signature |-> SignForAppend(pk, ct, pk)]

\* a request without the X-Signature header (headers.get returns null)
NoSignature == [signer |-> "none", pk |-> "none", ct |-> NotBase64]

\* request.text() of a request without body
EmptyBody == [key |-> "none", ev |-> -4]

\* a body of exactly the largest accepted length
LargestBody == [key |-> "none", ev |-> -5]

\* a body one character longer than that
OversizedBody == [key |-> "none", ev |-> -6]

\* handleAppend: if (ciphertextBase64.length > 10240)
MaxBodyLength == 10240

\* ciphertextBase64.length; a sealed event is a non-empty string well within the limit
BodyLength(body) ==
    IF body = EmptyBody THEN 0
    ELSE IF body = LargestBody THEN MaxBodyLength
    ELSE IF body = OversizedBody THEN MaxBodyLength + 1
    ELSE 1

AppendStatusBug(req) ==
    IF ~IsValidPublicKey(req.publicKey) THEN 400
    ELSE IF req.signature = NoSignature THEN 400
    ELSE IF BodyLength(req.body) = 0 THEN 400
    ELSE IF ~VerifySignature(req.publicKey, req.body, req.signature) THEN 400
    ELSE 201

\* handleAppend, validation part: 201 when the request is accepted
AppendStatus(req) ==
    IF ~IsValidPublicKey(req.publicKey) THEN 400
    ELSE IF req.signature = NoSignature THEN 400
    ELSE IF BodyLength(req.body) = 0 THEN 400
    ELSE IF BodyLength(req.body) > MaxBodyLength THEN 400
    ELSE IF ~VerifySignature(req.publicKey, req.body, req.signature) THEN 400
    ELSE 201

NextSeqBug(db, pk) == MaxSeqOf(db, pk)

\* (SELECT COALESCE(MAX(seq), 0) + 1 FROM events WHERE public_key = ?1)
NextSeq(db, pk) == MaxSeqOf(db, pk) + 1

\* handleAppend, insert part: INSERT ... RETURNING seq, one atomic statement
InsertRow(db, req) ==
    Append(db, [public_key |-> req.publicKey,
                seq        |-> NextSeq(db, req.publicKey),
                ciphertext |-> req.body])

\* handleHead: X-Latest-Seq
HeadLatestSeq(db, pk) == MaxSeqOf(db, pk)

\* handleHead: X-Event-Count
HeadEventCount(db, pk) == Cardinality(RowsOf(db, pk))

\* a query parameter: absent, text parseInt turns into NaN, or an integer
AbsentParam == [kind |-> "absent", n |-> 0]
NaNParam == [kind |-> "nan", n |-> 0]
IntParam(n) == [kind |-> "int", n |-> n]

\* read.ts: const DEFAULT_LIMIT
DEFAULT_LIMIT == 1000

\* read.ts: const MAX_LIMIT
MAX_LIMIT == 5000

\* handleRead: parseInt(searchParams.get('after') ?? '0'); NaN or negative becomes 0
AfterOf(p) == IF p.kind = "int" /\ p.n >= 0 THEN p.n ELSE 0

LimitOfBug(p) ==
    LET limit == IF p.kind = "int" THEN p.n ELSE DEFAULT_LIMIT
    IN IF limit > MAX_LIMIT THEN MAX_LIMIT ELSE limit

\* handleRead: parseInt(searchParams.get('limit') ?? DEFAULT_LIMIT); NaN becomes
\* DEFAULT_LIMIT; Math.min(Math.max(1, limit), MAX_LIMIT)
LimitOf(p) ==
    LET limit   == IF p.kind = "int" THEN p.n ELSE DEFAULT_LIMIT
        atLeast == IF limit < 1 THEN 1 ELSE limit
    IN IF atLeast > MAX_LIMIT THEN MAX_LIMIT ELSE atLeast

\* handleRead: rows with seq > after, ascending, LIMIT limit + 1
ReadRows(db, pk, after) ==
    SeqOfSet({r \in RowsOf(db, pk) : r.seq > after})

ReadHasMoreBug(db, pk, after, limit) == Len(ReadRows(db, pk, after)) >= limit

\* handleRead: hasMore = events.length > limit, of the limit + 1 rows fetched
ReadHasMore(db, pk, after, limit) == Len(ReadRows(db, pk, after)) > limit

ReadPage(db, pk, after, limit) ==
    LET rows == ReadRows(db, pk, after)
        n    == IF Len(rows) > limit THEN limit ELSE Len(rows)
    IN [i \in 1..n |-> [seq |-> rows[i].seq, ciphertext |-> rows[i].ciphertext]]

\* no request handled yet
NoStoreCall ==
    [op |-> "none", via |-> "handler", key |-> "A", body |-> EmptyBody,
     signature |-> NoSignature, after |-> AbsentParam, limit |-> AbsentParam,
     served |-> "none", status |-> 0, seq |-> 0, events |-> <<>>, has_more |-> FALSE,
     count |-> 0, latest |-> 0, queried |-> FALSE]

\* ---------------------------------------------------------------- EventCache
EmptyCache == [items |-> <<>>, lastSeq |-> 0]

\* getLastSeq
GetLastSeq(c) == c.lastSeq

\* getCachedEvents
GetCachedEvents(c) == c.items

IsFreshBug(e, currentLastSeq) == e.seq >= currentLastSeq

\* appendEvents: the filter (e) => e.seq > currentLastSeq
IsFresh(e, currentLastSeq) == e.seq > currentLastSeq

NewLastSeqBug(fresh) == fresh[1].seq

\* appendEvents: newLastSeq = fresh[fresh.length - 1].seq
NewLastSeq(fresh) == fresh[Len(fresh)].seq

\* appendEvents(publicKeyHex, newEvents) on one identity's cache
AppendEvents(c, newEvents) ==
    IF Len(newEvents) = 0 THEN c
    ELSE LET currentLastSeq == GetLastSeq(c)
             fresh == SelectSeq(newEvents, LAMBDA e : IsFresh(e, currentLastSeq))
         IN IF Len(fresh) = 0 THEN c
            ELSE [items |-> c.items \o fresh, lastSeq |-> NewLastSeq(fresh)]

\* addLocalEvent(publicKeyHex, event)
AddLocalEvent(c, event) == AppendEvents(c, <<event>>)

ClearCacheBug(c) == [items |-> <<>>, lastSeq |-> c.lastSeq]

\* clearCache(publicKeyHex): items, count, lastSeq and lastSyncAt are removed
ClearCache(c) == EmptyCache

\* ---------------------------------------------------------------- local event log
NoEvent == [type |-> "none", ref |-> 0, action |-> "none", author |-> "none"]

\* loadActiveTimer returns null
NoTimer == [NoEvent EXCEPT !.type = "no_timer"]

\* appendEvent: the event id joins the order list and the pending queue
AppendOrder(order, id) == Append(order, id)

\* loadEvents: the stored events in log order, ids without a stored item skipped
LoadEvents(order, items) ==
    LET stored == SelectSeq(order, LAMBDA id : items[id] # NoEvent)
    IN [i \in 1..Len(stored) |-> items[stored[i]]]

MarkEventSyncedBug(pending, eventId) == pending

\* markEventSynced: pending.filter((id) => id !== eventId)
MarkEventSynced(pending, eventId) == SelectSeq(pending, LAMBDA id : id # eventId)

ClearPendingBug(pending) == pending

\* clearPending: savePendingIds([])
ClearPending(pending) == <<>>

\* loadPendingEvents: the pending ids whose event is stored, in queue order
LoadPendingEvents(pending, order) ==
    SelectSeq(pending, LAMBDA id : id \in Range(order))

\* decryptCachedEvents: decodeBase64 is called outside the try block
DecryptCachedEventsThrows(c) ==
    \E i \in 1..Len(GetCachedEvents(c)) : DecodeBase64Throws(GetCachedEvents(c)[i].ciphertext)

\* decryptCachedEvents: the cached entries that open under the identity and whose
\* plaintext JSON.parse accepts, in cache order
DecryptCachedEvents(c, pk) ==
    LET kept == SelectSeq(GetCachedEvents(c),
                          LAMBDA se : /\ DecryptEvent(se.ciphertext, pk) # 0
                                      /\ ~DecodeEventThrows(DecryptEvent(se.ciphertext, pk)))
    IN [i \in 1..Len(kept) |->
            [seq |-> kept[i].seq, event |-> DecodeEvent(DecryptEvent(kept[i].ciphertext, pk))]]

\* pullEvents: map.set(d.event.id, d.seq) throws when d.event is null
PullEventsThrows(decrypted) ==
    \E i \in 1..Len(decrypted) : decrypted[i].event = NullValue

\* pullEvents: decrypted events whose id is not in the local log are appended to it
MergePulled(order, decrypted) ==
    LET newEvents == SelectSeq(decrypted, LAMBDA x : x.event \notin Range(order))
    IN order \o [i \in 1..Len(newEvents) |-> newEvents[i].event]

\* appendPulledEvents: every new event is stored under its id; the plaintext of a
\* ciphertext is the event as it was created
AppendPulledEvents(items, newIds) ==
    [e \in EventIds |-> IF e \in newIds THEN evData[e] ELSE items[e]]

FindActiveTimerStartBug(events) ==
    LET matchedStartIds == {events[i].ref : i \in {j \in 1..Len(events) :
                                                   events[j].type = "timer_stop"}}
        deletedIds == {events[i].ref : i \in {j \in 1..Len(events) :
                                              /\ events[j].type = "correction"
                                              /\ events[j].action = "delete"}}
        open == {i \in 1..Len(events) : /\ events[i].type = "timer_start"
                                        /\ events[i].id \notin matchedStartIds
                                        /\ events[i].id \notin deletedIds}
    IN IF open = {} THEN NoTimer
       ELSE events[CHOOSE i \in open : \A j \in open : j <= i]

\* findActiveTimerStart(events): the timer_start with the latest ts (the first of
\* them in the list) that no timer_stop and no delete correction references
FindActiveTimerStart(events) ==
    LET matchedStartIds == {events[i].ref : i \in {j \in 1..Len(events) :
                                                   events[j].type = "timer_stop"}}
        deletedIds == {events[i].ref : i \in {j \in 1..Len(events) :
                                              /\ events[j].type = "correction"
                                              /\ events[j].action = "delete"}}
        open == {i \in 1..Len(events) : /\ events[i].type = "timer_start"
                                        /\ events[i].id \notin matchedStartIds
                                        /\ events[i].id \notin deletedIds}
    IN IF open = {} THEN NoTimer
       ELSE events[CHOOSE i \in open : \A j \in open :
                      \/ events[j].ts < events[i].ts
                      \/ events[j].ts = events[i].ts /\ i <= j]

\* pullEvents: sync active timer state from event log (cross-device support)
SyncActiveTimer(localActive, activeFromEvents) ==
    IF activeFromEvents # NoTimer /\ localActive = NoTimer THEN activeFromEvents
    ELSE IF activeFromEvents = NoTimer /\ localActive # NoTimer THEN NoTimer
    ELSE localActive

\* reconstructSessions over the local log: ids of the sessions shown to the user
SessionIds(order) ==
    {id \in Range(order) :
        /\ evData[id].type = "manual_entry"
        /\ ~\E c \in Range(order) :
              /\ evData[c].type = "correction"
              /\ evData[c].action = "delete"
              /\ evData[c].ref = id}


\* ---------------------------------------------------------------- tasks
IdlePush == [pc |-> "none", pk |-> "A", seq |-> 0]
IdleSync == [pc |-> "idle", pk |-> "A", queue |-> <<>>, idx |-> 0, net |-> "none",
             seq |-> 0, outcome |-> "none"]
\* fetches counts the getEvents calls of the run; outcome is how the last run ended
IdlePull == [pc |-> "idle", pk |-> "A", lastSeq |-> 0, latest |-> 0, after |-> 0,
             page |-> <<>>, hasMore |-> FALSE, fetches |-> 0, outcome |-> "none"]

\* calls of all devices that are waiting on the network
Inflight ==
    Cardinality({x \in Devices \X EventIds :
                    pushTask[x[1]][x[2]].pc \in {"req", "resp", "rejected"}})
    + Cardinality({d \in Devices : syncTask[d].pc # "idle"})
    + Cardinality({d \in Devices : pullTask[d]["P"].pc # "idle"})

\* SyncEngine.pull, first lines: read lastSeq, then issue the HEAD request
StartedPull(pk, c) ==
    [IdlePull EXCEPT !.pc = "head", !.pk = pk, !.lastSeq = GetLastSeq(c)]

NothingNewBug(latestSeq, lastSeq) == latestSeq < lastSeq

\* SyncEngine.pull: if (head.latestSeq <= lastSeq) nothing new
NothingNew(latestSeq, lastSeq) == latestSeq <= lastSeq

NextAfterBug(after, page) == after

\* SyncEngine.pull: after = seq of the last event of the page, when the page is not empty
NextAfter(after, page) == IF Len(page) > 0 THEN page[Len(page)].seq ELSE after

InitWith(ids) ==
    /\ dbEvents = <<>>
    /\ nextId = 1
    /\ evData = [e \in EventIds |-> NoEvent]
    /\ identity = ids
    /\ pendingKeyImport = [d \in Devices |-> "none"]
    /\ showMergePrompt = [d \in Devices |-> FALSE]
    /\ loadCall = [n |-> 0, key |-> "none"]
    /\ localOrder = [d \in Devices |-> <<>>]
    /\ pendingIds = [d \in Devices |-> <<>>]
    /\ cache = [d \in Devices |-> [pk \in Identities |-> EmptyCache]]
    /\ pushTask = [d \in Devices |-> [e \in EventIds |-> IdlePush]]
    /\ syncTask = [d \in Devices |-> IdleSync]
    /\ pullTask = [d \in Devices |-> [s \in Slots |-> IdlePull]]
    /\ syncCalls = 0
    /\ cacheCall = [op |-> "none", batch |-> <<>>, before |-> 0, asc |-> TRUE]
    /\ storeCall = NoStoreCall
    /\ foldLog = <<>>
    /\ pureCall = [op |-> "none", seconds |-> 0, minutes |-> 0, message |-> <<>>,
                   sealedFor |-> "none", openedBy |-> "none",
                   opened |-> [ok |-> FALSE, message |-> <<>>]]
    /\ now = 0
    /\ activeTimer = [d \in Devices |-> NoTimer]
    /\ localItem = [d \in Devices |-> [e \in EventIds |-> NoEvent]]

\* every device starts with the same identity (the key was shared beforehand)
Init == InitWith([d \in Devices |-> "A"])

\* ---------------------------------------------------------------- creating events
\* appendEvent(event); onchange(); onpush(event): the event is stored, queued as
\* pending, and pushEvent(event) issues its append request (the merge prompt is a
\* full-screen overlay: no event is created while it is shown)
CreateEvent(d, data) ==
    /\ nextId <= MaxEvents
    /\ ~showMergePrompt[d]
    /\ Inflight < MaxInflight
    /\ evData' = [evData EXCEPT ![nextId] = data]
    /\ nextId' = nextId + 1
    /\ localItem' = [localItem EXCEPT ![d][nextId] = data]
    /\ localOrder' = [localOrder EXCEPT ![d] = AppendOrder(@, nextId)]
    /\ pendingIds' = [pendingIds EXCEPT ![d] = Append(@, nextId)]
    /\ pushTask' = [pushTask EXCEPT ![d][nextId] = [pc |-> "req", pk |-> identity[d], seq |-> 0]]
    /\ UNCHANGED <<driverVars, now, dbEvents, identity, pendingKeyImport, showMergePrompt, loadCall, cache,
                   syncTask, pullTask, syncCalls, cacheCall>>

\* SessionLog.saveManual: createManualEntry
SaveManual(d) ==
    /\ CreateEvent(d, [type |-> "manual_entry", ref |-> 0, action |-> "none", author |-> d])
    /\ UNCHANGED activeTimer

\* SessionLog.saveEdit: createCorrection(editingId, 'replace', ...)
SaveEdit(d) ==
    \E id \in SessionIds(localOrder[d]) :
        /\ CreateEvent(d, [type |-> "correction", ref |-> id, action |-> "replace", author |-> d])
        /\ UNCHANGED activeTimer

\* SessionLog.deleteSession: createCorrection(id, 'delete')
DeleteSession(d) ==
    \E id \in SessionIds(localOrder[d]) :
        /\ CreateEvent(d, [type |-> "correction", ref |-> id, action |-> "delete", author |-> d])
        /\ UNCHANGED activeTimer

\* ---------------------------------------------------------------- pushEvent
\* the store handles the append request of pushEvent(e): 201 with the assigned
\* sequence, or a 400 the client turns into an error
StoreAppendPush(d, e) ==
    LET t   == pushTask[d][e]
        req == AppendRequest(t.pk, EncryptEvent(e, t.pk))
    IN /\ t.pc = "req"
       /\ Len(dbEvents) < MaxRows
       /\ IF AppendStatus(req) = 201
          THEN /\ dbEvents' = InsertRow(dbEvents, req)
               /\ pushTask' = [pushTask EXCEPT ![d][e] =
                                  [t EXCEPT !.pc = "resp", !.seq = NextSeq(dbEvents, t.pk)]]
          ELSE /\ pushTask' = [pushTask EXCEPT ![d][e].pc = "rejected"]
               /\ UNCHANGED dbEvents
       /\ UNCHANGED <<driverVars, timerVars, nextId, evData, identity, pendingKeyImport, showMergePrompt, loadCall, localOrder, pendingIds, cache,
                      syncTask, pullTask, syncCalls, cacheCall>>

\* pushEvent resumes with the 201 response: SyncEngine.push caches the event under
\* its sequence, then markEventSynced
PushEventDone(d, e) ==
    LET t == pushTask[d][e]
    IN /\ t.pc = "resp"
       /\ cache' = [cache EXCEPT ![d][t.pk] =
                       AddLocalEvent(@, [seq |-> t.seq, ciphertext |-> EncryptEvent(e, t.pk)])]
       /\ pendingIds' = [pendingIds EXCEPT ![d] = MarkEventSynced(@, e)]
       /\ pushTask' = [pushTask EXCEPT ![d][e].pc = "done", ![d][e].seq = 0]
       /\ UNCHANGED <<driverVars, timerVars, dbEvents, nextId, evData, identity, pendingKeyImport, showMergePrompt, loadCall, localOrder,
                      syncTask, pullTask, syncCalls, cacheCall>>

\* the request or its response is lost, or the store refused: pushEvent's catch block
PushEventFail(d, e) ==
    /\ pushTask[d][e].pc \in {"req", "resp", "rejected"}
    /\ pushTask' = [pushTask EXCEPT ![d][e].pc = "failed", ![d][e].seq = 0]
    /\ UNCHANGED <<driverVars, timerVars, dbEvents, nextId, evData, identity, pendingKeyImport, showMergePrompt, loadCall, localOrder, pendingIds, cache,
                   syncTask, pullTask, syncCalls, cacheCall>>

\* ---------------------------------------------------------------- pullEvents
\* pullEvents() called on its own (initial load, handleDiscard)
PullStart(d) ==
    /\ pullTask[d]["P"].pc = "idle"
    /\ Inflight < MaxInflight
    /\ syncCalls < MaxCalls
    /\ syncCalls' = syncCalls + 1
    /\ pullTask' = [pullTask EXCEPT ![d]["P"] = StartedPull(identity[d], cache[d][identity[d]])]
    /\ UNCHANGED <<driverVars, timerVars, dbEvents, nextId, evData, identity, pendingKeyImport, showMergePrompt, loadCall, localOrder, pendingIds, cache,
                   pushTask, syncTask, cacheCall>>

\* the store handles the HEAD request
StoreHead(d, s) ==
    LET t == pullTask[d][s]
    IN /\ t.pc = "head"
       /\ pullTask' = [pullTask EXCEPT ![d][s] =
                          [t EXCEPT !.pc = "headResp", !.latest = HeadLatestSeq(dbEvents, t.pk)]]
       /\ UNCHANGED <<driverVars, timerVars, dbEvents, nextId, evData, identity, pendingKeyImport, showMergePrompt, loadCall, localOrder, pendingIds, cache,
                      pushTask, syncTask, syncCalls, cacheCall>>

\* the store handles a GET request for the page after `after`
StoreRead(d, s) ==
    LET t == pullTask[d][s]
    IN /\ t.pc = "get"
       /\ pullTask' = [pullTask EXCEPT ![d][s] =
                          [t EXCEPT !.pc = "getResp",
                                    !.page = ReadPage(dbEvents, t.pk, t.after, PageLimit),
                                    !.hasMore = ReadHasMore(dbEvents, t.pk, t.after, PageLimit)]]
       /\ UNCHANGED <<driverVars, timerVars, dbEvents, nextId, evData, identity, pendingKeyImport, showMergePrompt, loadCall, localOrder, pendingIds, cache,
                      pushTask, syncTask, syncCalls, cacheCall>>

\* SyncEngine.pull reached decryptCachedEvents: pullEvents merges the decrypted cache
\* into the local log, or ends in its catch block when decryptCachedEvents or its
\* own loop over the result throws; when syncAll awaited it, syncAll goes on to
\* clearPending() either way
PullReturned(d, s, c) ==
    LET t      == pullTask[d][s]
        threw  == \/ DecryptCachedEventsThrows(c)
                  \/ PullEventsThrows(DecryptCachedEvents(c, t.pk))
        merged == IF threw THEN localOrder[d]
                  ELSE MergePulled(localOrder[d], DecryptCachedEvents(c, t.pk))
        items  == AppendPulledEvents(localItem[d], Range(merged) \ Range(localOrder[d]))
    IN /\ localOrder' = [localOrder EXCEPT ![d] = merged]
       /\ localItem' = [localItem EXCEPT ![d] = items]
       /\ activeTimer' = [activeTimer EXCEPT ![d] =
                             IF threw THEN @
                             ELSE SyncActiveTimer(@, FindActiveTimerStart(LoadEvents(merged, items)))]
       /\ pullTask' = [pullTask EXCEPT ![d][s] =
                          [IdlePull EXCEPT !.fetches = t.fetches,
                                           !.outcome = IF threw THEN "exception" ELSE "ok"]]
       /\ IF s = "S"
          THEN /\ pendingIds' = [pendingIds EXCEPT ![d] = ClearPending(@)]
               /\ syncTask' = [syncTask EXCEPT ![d].pc = "idle",
                                               ![d].outcome = IF threw THEN "pullFailed" ELSE "ok"]
          ELSE UNCHANGED <<pendingIds, syncTask>>

\* pull resumes with the HEAD response
PullOnHead(d, s) ==
    LET t == pullTask[d][s]
    IN /\ t.pc = "headResp"
       /\ IF NothingNew(t.latest, t.lastSeq)
          THEN /\ PullReturned(d, s, cache[d][t.pk])
               /\ UNCHANGED cache
          ELSE /\ pullTask' = [pullTask EXCEPT ![d][s] =
                                  [t EXCEPT !.pc = "get", !.after = t.lastSeq,
                                            !.fetches = t.fetches + 1]]
               /\ UNCHANGED <<localOrder, localItem, activeTimer, pendingIds, cache, syncTask>>
       /\ UNCHANGED <<driverVars, now, dbEvents, nextId, evData, identity, pendingKeyImport, showMergePrompt, loadCall, pushTask, syncCalls, cacheCall>>

\* pull resumes with a page: appendEvents, advance after, loop while has_more
PullOnPage(d, s) ==
    LET t == pullTask[d][s]
        c == AppendEvents(cache[d][t.pk], t.page)
    IN /\ t.pc = "getResp"
       /\ cache' = [cache EXCEPT ![d][t.pk] = c]
       /\ IF t.hasMore
          THEN /\ pullTask' = [pullTask EXCEPT ![d][s] =
                                  [t EXCEPT !.pc = "get", !.after = NextAfter(t.after, t.page),
                                            !.page = <<>>, !.hasMore = FALSE,
                                            !.fetches = t.fetches + 1]]
               /\ UNCHANGED <<localOrder, localItem, activeTimer, pendingIds, syncTask>>
          ELSE PullReturned(d, s, c)
       /\ UNCHANGED <<driverVars, now, dbEvents, nextId, evData, identity, pendingKeyImport, showMergePrompt, loadCall, pushTask, syncCalls, cacheCall>>

\* a request of the pull is lost: pullEvents' catch block swallows the error, so a
\* syncAll awaiting it still goes on to clearPending()
PullFail(d, s) ==
    /\ pullTask[d][s].pc # "idle"
    /\ pullTask' = [pullTask EXCEPT ![d][s] =
                       [IdlePull EXCEPT !.fetches = pullTask[d][s].fetches, !.outcome = "error"]]
    /\ IF s = "S"
       THEN /\ pendingIds' = [pendingIds EXCEPT ![d] = ClearPending(@)]
            /\ syncTask' = [syncTask EXCEPT ![d].pc = "idle", ![d].outcome = "pullFailed"]
       ELSE UNCHANGED <<pendingIds, syncTask>>
    /\ UNCHANGED <<driverVars, timerVars, dbEvents, nextId, evData, identity, pendingKeyImport, showMergePrompt, loadCall, localOrder, cache, pushTask,
                   syncCalls, cacheCall>>

\* ---------------------------------------------------------------- syncAll
\* syncAll(): snapshot the pending events; pushUnsynced(pending) when there are any,
\* otherwise straight to pullEvents()
SyncAllStart(d) ==
    LET pending == LoadPendingEvents(pendingIds[d], localOrder[d])
    IN /\ syncTask[d].pc = "idle"
       /\ ~showMergePrompt[d]
       /\ Inflight < MaxInflight
       /\ syncCalls < MaxCalls
       /\ syncCalls' = syncCalls + 1
       /\ IF Len(pending) > 0
          THEN /\ syncTask' = [syncTask EXCEPT ![d] =
                                  [IdleSync EXCEPT !.pc = "push", !.pk = identity[d],
                                                   !.queue = pending, !.idx = 1, !.net = "req"]]
               /\ UNCHANGED pullTask
          ELSE /\ syncTask' = [syncTask EXCEPT ![d] =
                                  [IdleSync EXCEPT !.pc = "pull", !.pk = identity[d]]]
               /\ pullTask' = [pullTask EXCEPT ![d]["S"] =
                                  StartedPull(identity[d], cache[d][identity[d]])]
       /\ UNCHANGED <<driverVars, timerVars, dbEvents, nextId, evData, identity, pendingKeyImport, showMergePrompt, loadCall, localOrder, pendingIds, cache,
                      pushTask, cacheCall>>

\* the store handles the append request of the event pushUnsynced is pushing
StoreAppendSync(d) ==
    LET t   == syncTask[d]
        e   == t.queue[t.idx]
        req == AppendRequest(t.pk, EncryptEvent(e, t.pk))
    IN /\ t.pc = "push"
       /\ t.net = "req"
       /\ Len(dbEvents) < MaxRows
       /\ IF AppendStatus(req) = 201
          THEN /\ dbEvents' = InsertRow(dbEvents, req)
               /\ syncTask' = [syncTask EXCEPT ![d] =
                                  [t EXCEPT !.net = "resp", !.seq = NextSeq(dbEvents, t.pk)]]
          ELSE /\ syncTask' = [syncTask EXCEPT ![d].net = "rejected"]
               /\ UNCHANGED dbEvents
       /\ UNCHANGED <<driverVars, timerVars, nextId, evData, identity, pendingKeyImport, showMergePrompt, loadCall, localOrder, pendingIds, cache,
                      pushTask, pullTask, syncCalls, cacheCall>>

\* pushUnsynced resumes with the 201 response: the event is cached and marked synced;
\* after the last event syncAll calls pullEvents()
PushUnsyncedNext(d) ==
    LET t == syncTask[d]
        e == t.queue[t.idx]
        c == AddLocalEvent(cache[d][t.pk], [seq |-> t.seq, ciphertext |-> EncryptEvent(e, t.pk)])
    IN /\ t.pc = "push"
       /\ t.net = "resp"
       /\ cache' = [cache EXCEPT ![d][t.pk] = c]
       /\ pendingIds' = [pendingIds EXCEPT ![d] = MarkEventSynced(@, e)]
       /\ IF t.idx < Len(t.queue)
          THEN /\ syncTask' = [syncTask EXCEPT ![d] =
                                  [t EXCEPT !.idx = t.idx + 1, !.net = "req", !.seq = 0]]
               /\ UNCHANGED pullTask
          ELSE /\ syncTask' = [syncTask EXCEPT ![d] =
                                  [t EXCEPT !.pc = "pull", !.net = "none", !.seq = 0]]
               /\ pullTask' = [pullTask EXCEPT ![d]["S"] =
                                  StartedPull(identity[d], cache'[d][identity[d]])]
       /\ UNCHANGED <<driverVars, timerVars, dbEvents, nextId, evData, identity, pendingKeyImport, showMergePrompt, loadCall, localOrder, pushTask,
                      syncCalls, cacheCall>>

\* a push of pushUnsynced fails: the error reaches syncAll's catch block, the rest
\* of the queue stays pending
PushUnsyncedFail(d) ==
    /\ syncTask[d].pc = "push"
    /\ syncTask' = [syncTask EXCEPT ![d].pc = "idle", ![d].net = "none", ![d].seq = 0,
                                    ![d].outcome = "pushFailed"]
    /\ UNCHANGED <<driverVars, timerVars, dbEvents, nextId, evData, identity, pendingKeyImport, showMergePrompt, loadCall, localOrder, pendingIds, cache,
                   pushTask, pullTask, syncCalls, cacheCall>>

\* ---------------------------------------------------------------- identity import
\* what a page load finds in the URL hash: no key, the secret key of an identity,
\* or a string that is no secret key
HashKeys == {"none", "bad"} \cup Identities

ImportSecretKeyBug(keyBase64) == IF keyBase64 \in Identities THEN keyBase64 ELSE "B"

\* importSecretKey: the identity of the key, "invalid" when decoding it throws
ImportSecretKey(keyBase64) == IF keyBase64 \in Identities THEN keyBase64 ELSE "invalid"

DefersImportBug(newIdentity, existingIdentity, localEvents) == newIdentity # existingIdentity

\* getOrCreateIdentity: the import is deferred to the merge prompt when the saved
\* identity differs from the imported one and loadEvents() is not empty
DefersImport(newIdentity, existingIdentity, localEvents) ==
    /\ existingIdentity # newIdentity
    /\ Len(localEvents) > 0

SwitchIdentityBug(current, keyBase64) == current

\* switchIdentity: identity = importSecretKey(keyBase64), saved as the identity
SwitchIdentity(current, keyBase64) == ImportSecretKey(keyBase64)

MarkAllPendingBug(order) == SubSeq(order, 1, Len(order) - 1)

\* markAllPending: savePendingIds([...order])
MarkAllPending(order) == order

\* clearLocalData: localStorage.removeItem(LOCAL_EVENT_PREFIX + id) for every id of
\* the order list
RemoveItems(items, order) ==
    [e \in EventIds |-> IF e \in Range(order) THEN NoEvent ELSE items[e]]

ClearLocalDataBug(ids) == ids

\* clearLocalData: saveEventOrder([]), savePendingIds([])
ClearLocalData(ids) == <<>>

\* handleMerge, handleDiscard: if (!pendingKeyImport) return
DecisionOpen(pending) == pending # "none"

\* a page load ends the calls of the old app instance: those waiting on the network
\* are dropped without running their continuation
DroppedPush(t) == IF t.pc \in {"req", "resp", "rejected"} THEN [t EXCEPT !.pc = "dropped", !.seq = 0] ELSE t

\* the page is loaded with `key` in the URL hash: getOrCreateIdentity runs, and the
\* initial-load $effect calls pullEvents() unless the merge prompt is shown
PageLoad(d, key) ==
    LET newIdentity == ImportSecretKey(key)
        defer == /\ newIdentity # "invalid"
                 /\ DefersImport(newIdentity, identity[d], localOrder[d])
        id    == IF newIdentity # "invalid" /\ ~defer THEN newIdentity ELSE identity[d]
    IN /\ loadCall.n < MaxLoads
       /\ loadCall' = [n |-> loadCall.n + 1, key |-> key]
       /\ pushTask' = [pushTask EXCEPT ![d] = [e \in EventIds |-> DroppedPush(pushTask[d][e])]]
       /\ syncTask' = [syncTask EXCEPT ![d] = IdleSync]
       /\ identity' = [identity EXCEPT ![d] = id]
       /\ pendingKeyImport' = [pendingKeyImport EXCEPT ![d] = IF defer THEN key ELSE "none"]
       /\ showMergePrompt' = [showMergePrompt EXCEPT ![d] = defer]
       /\ pullTask' = [pullTask EXCEPT ![d] =
                          [s \in Slots |-> IF s = "E" /\ ~defer
                                           THEN StartedPull(id, cache[d][id])
                                           ELSE IdlePull]]
       /\ UNCHANGED <<driverVars, timerVars, dbEvents, nextId, evData, localOrder, pendingIds, cache,
                      syncCalls, cacheCall>>

\* handleMerge: switchIdentity, markAllPending, close the prompt, syncAll(); closing
\* the prompt re-runs the initial-load $effect, which calls pullEvents()
HandleMerge(d) ==
    IF ~DecisionOpen(pendingKeyImport[d]) THEN UNCHANGED vars
    ELSE LET id      == SwitchIdentity(identity[d], pendingKeyImport[d])
             marked  == MarkAllPending(localOrder[d])
             pending == LoadPendingEvents(marked, localOrder[d])
         IN /\ identity' = [identity EXCEPT ![d] = id]
            /\ pendingIds' = [pendingIds EXCEPT ![d] = marked]
            /\ pendingKeyImport' = [pendingKeyImport EXCEPT ![d] = "none"]
            /\ showMergePrompt' = [showMergePrompt EXCEPT ![d] = FALSE]
            /\ IF Len(pending) > 0
               THEN /\ syncTask' = [syncTask EXCEPT ![d] =
                                       [IdleSync EXCEPT !.pc = "push", !.pk = id,
                                                        !.queue = pending, !.idx = 1,
                                                        !.net = "req"]]
                    /\ pullTask' = [pullTask EXCEPT ![d]["E"] = StartedPull(id, cache[d][id])]
               ELSE /\ syncTask' = [syncTask EXCEPT ![d] =
                                       [IdleSync EXCEPT !.pc = "pull", !.pk = id]]
                    /\ pullTask' = [pullTask EXCEPT ![d]["S"] = StartedPull(id, cache[d][id]),
                                                    ![d]["E"] = StartedPull(id, cache[d][id])]
            /\ UNCHANGED <<driverVars, timerVars, dbEvents, nextId, evData, localOrder, cache, pushTask,
                           loadCall, syncCalls, cacheCall>>

\* handleDiscard: clearLocalData, switchIdentity, close the prompt, pullEvents();
\* closing the prompt re-runs the initial-load $effect, a second pullEvents()
HandleDiscard(d) ==
    IF ~DecisionOpen(pendingKeyImport[d]) THEN UNCHANGED vars
    ELSE LET id == SwitchIdentity(identity[d], pendingKeyImport[d])
         IN /\ localOrder' = [localOrder EXCEPT ![d] = ClearLocalData(@)]
            /\ pendingIds' = [pendingIds EXCEPT ![d] = ClearLocalData(@)]
            /\ localItem' = [localItem EXCEPT ![d] = RemoveItems(@, localOrder[d])]
            /\ activeTimer' = [activeTimer EXCEPT ![d] = NoTimer]
            /\ identity' = [identity EXCEPT ![d] = id]
            /\ pendingKeyImport' = [pendingKeyImport EXCEPT ![d] = "none"]
            /\ showMergePrompt' = [showMergePrompt EXCEPT ![d] = FALSE]
            /\ pullTask' = [pullTask EXCEPT ![d]["P"] = StartedPull(id, cache[d][id]),
                                            ![d]["E"] = StartedPull(id, cache[d][id])]
            /\ UNCHANGED <<driverVars, now, dbEvents, nextId, evData, cache, pushTask, syncTask,
                           loadCall, syncCalls, cacheCall>>

\* ---------------------------------------------------------------- system
Next ==
    \/ \E d \in Devices : SaveManual(d)
    \/ \E d \in Devices : SaveEdit(d)
    \/ \E d \in Devices : DeleteSession(d)
    \/ \E d \in Devices, e \in EventIds : StoreAppendPush(d, e)
    \/ \E d \in Devices, e \in EventIds : PushEventDone(d, e)
    \/ \E d \in Devices, e \in EventIds : PushEventFail(d, e)
    \/ \E d \in Devices : PullStart(d)
    \/ \E d \in Devices, s \in Slots : StoreHead(d, s)
    \/ \E d \in Devices, s \in Slots : StoreRead(d, s)
    \/ \E d \in Devices, s \in Slots : PullOnHead(d, s)
    \/ \E d \in Devices, s \in Slots : PullOnPage(d, s)
    \/ \E d \in Devices, s \in Slots : PullFail(d, s)
    \/ \E d \in Devices : SyncAllStart(d)
    \/ \E d \in Devices : StoreAppendSync(d)
    \/ \E d \in Devices : PushUnsyncedNext(d)
    \/ \E d \in Devices : PushUnsyncedFail(d)

Spec == Init /\ [][Next]_vars

\* ---------------------------------------------------------------- cache driver
\* direct calls on one EventCache (device d1), with batches of any shape
CacheDevice == "d1"

ServerEventOf(seq) == [seq |-> seq, ciphertext |-> EncryptEvent(1, "A")]

\* the batch is in strictly ascending sequence order, as handleRead returns pages
IsAscending(batch) ==
    \A i \in 1..Len(batch) : \A j \in 1..Len(batch) : i < j => batch[i].seq < batch[j].seq

CacheAppendEvents(pk, batch) ==
    /\ Len(cache[CacheDevice][pk].items) + Len(batch) <= MaxItems
    /\ cache' = [cache EXCEPT ![CacheDevice][pk] = AppendEvents(@, batch)]
    /\ cacheCall' = [op |-> "appendEvents", batch |-> batch,
                     before |-> GetLastSeq(cache[CacheDevice][pk]),
                     asc |-> cacheCall.asc /\ IsAscending(batch)]
    /\ UNCHANGED <<driverVars, timerVars, dbEvents, nextId, evData, identity, pendingKeyImport, showMergePrompt, loadCall, localOrder, pendingIds,
                   pushTask, syncTask, pullTask, syncCalls>>

CacheAddLocalEvent(pk, event) ==
    /\ Len(cache[CacheDevice][pk].items) < MaxItems
    /\ cache' = [cache EXCEPT ![CacheDevice][pk] = AddLocalEvent(@, event)]
    /\ cacheCall' = [op |-> "addLocalEvent", batch |-> <<event>>,
                     before |-> GetLastSeq(cache[CacheDevice][pk]),
                     asc |-> cacheCall.asc]
    /\ UNCHANGED <<driverVars, timerVars, dbEvents, nextId, evData, identity, pendingKeyImport, showMergePrompt, loadCall, localOrder, pendingIds,
                   pushTask, syncTask, pullTask, syncCalls>>

CacheClearCache(pk) ==
    /\ cache' = [cache EXCEPT ![CacheDevice][pk] = ClearCache(@)]
    /\ cacheCall' = [op |-> "clearCache", batch |-> <<>>,
                     before |-> GetLastSeq(cache[CacheDevice][pk]), asc |-> TRUE]
    /\ UNCHANGED <<driverVars, timerVars, dbEvents, nextId, evData, identity, pendingKeyImport, showMergePrompt, loadCall, localOrder, pendingIds,
                   pushTask, syncTask, pullTask, syncCalls>>

NextCache ==
    \/ \E batch \in UNION {[1..n -> {ServerEventOf(q) : q \in 1..MaxSeq}] : n \in 0..MaxBatch} :
          CacheAppendEvents(identity[CacheDevice], batch)
    \/ \E q \in 1..MaxSeq : CacheAddLocalEvent(identity[CacheDevice], ServerEventOf(q))
    \/ CacheClearCache(identity[CacheDevice])

SpecCache == Init /\ [][NextCache]_vars

\* ---------------------------------------------------------------- merge driver
\* device d1 opens key links; device d2 is another user's device whose identity
\* d1 can import
MergeDevice == "d1"

InitMerge == InitWith([d \in Devices |-> IF d = MergeDevice THEN "A" ELSE "B"])

NextMerge ==
    \/ \E d \in Devices : SaveManual(d)
    \/ \E d \in Devices, e \in EventIds : StoreAppendPush(d, e)
    \/ \E d \in Devices, e \in EventIds : PushEventDone(d, e)
    \/ \E d \in Devices, e \in EventIds : PushEventFail(d, e)
    \/ \E s \in Slots : StoreHead(MergeDevice, s)
    \/ \E s \in Slots : StoreRead(MergeDevice, s)
    \/ \E s \in Slots : PullOnHead(MergeDevice, s)
    \/ \E s \in Slots : PullOnPage(MergeDevice, s)
    \/ \E s \in Slots : PullFail(MergeDevice, s)
    \/ StoreAppendSync(MergeDevice)
    \/ PushUnsyncedNext(MergeDevice)
    \/ PushUnsyncedFail(MergeDevice)
    \/ \E key \in HashKeys : PageLoad(MergeDevice, key)
    \/ HandleMerge(MergeDevice)
    \/ HandleDiscard(MergeDevice)

SpecMerge == InitMerge /\ [][NextMerge]_vars

\* ---------------------------------------------------------------- decrypt driver
\* one device pulling a log to which other holders of the identity's key append
DecryptDevice == "d1"

\* another holder of the identity's secret key appends a signed body to its log:
\* a box for either identity around text that is no event, or text that is no box
ForeignAppend(pk, ct) ==
    LET req == AppendRequest(pk, ct)
    IN /\ Len(dbEvents) < MaxRows
       /\ AppendStatus(req) = 201
       /\ dbEvents' = InsertRow(dbEvents, req)
       /\ UNCHANGED <<driverVars, timerVars, nextId, evData, identity, pendingKeyImport, showMergePrompt, loadCall,
                      localOrder, pendingIds, cache, pushTask, syncTask, pullTask,
                      syncCalls, cacheCall>>

NextDecrypt ==
    \/ \E d \in Devices : SaveManual(d)
    \/ \E d \in Devices, e \in EventIds : StoreAppendPush(d, e)
    \/ \E d \in Devices, e \in EventIds : PushEventDone(d, e)
    \/ \E ct \in {EncryptEvent(p, k) : p \in {NotJson, JsonNull}, k \in Identities}
                    \cup {NotBase64} :
          ForeignAppend(identity[DecryptDevice], ct)
    \/ PullStart(DecryptDevice)
    \/ StoreHead(DecryptDevice, "P")
    \/ StoreRead(DecryptDevice, "P")
    \/ PullOnHead(DecryptDevice, "P")
    \/ PullOnPage(DecryptDevice, "P")
    \/ PullFail(DecryptDevice, "P")

SpecDecrypt == Init /\ [][NextDecrypt]_vars

\* ---------------------------------------------------------------- pull driver
\* device d1 pulls a log that another holder of the key keeps appending to; every
\* request gets its response or fails, and an awaited call resumes
PullStep ==
    \/ StoreHead("d1", "P")
    \/ StoreRead("d1", "P")
    \/ PullOnHead("d1", "P")
    \/ PullOnPage("d1", "P")

NextPull ==
    \/ \E ct \in {EncryptEvent(NotJson, "A"), EncryptEvent(JsonNull, "B")} :
          ForeignAppend(identity["d1"], ct)
    \/ PullStart("d1")
    \/ PullStep
    \/ PullFail("d1", "P")

SpecPull == Init /\ [][NextPull]_vars /\ WF_vars(PullStep)

\* ---------------------------------------------------------------- worker driver
\* requests of any shape, sent to the worker's fetch handler or handed to the
\* exported handlers directly
MalformedKeys == {"not-a-hex-key"}

StoreKeys == Identities \cup MalformedKeys

\* "handler": the handler is called directly; "fetch": through the worker;
\* "ipLimited", "keyLimited": through the worker, and that rate limiter refuses
Vias == {"handler", "fetch", "ipLimited", "keyLimited"}

SealedBody == EncryptEvent(1, "A")

\* fetch: url.pathname.match(/^\/api\/log\/([0-9a-f]{64})$/)
MatchesLogRoute(key) == key \in Identities

\* fetch: who answers the request: a rate limiter (429), the handler of the
\* method, or env.ASSETS.fetch for a path that is not a log route
Served(via, key) ==
    IF via = "handler" THEN "handler"
    ELSE IF via = "ipLimited" THEN "limited"
    ELSE IF ~MatchesLogRoute(key) THEN "assets"
    ELSE IF via = "keyLimited" THEN "limited"
    ELSE "handler"

\* checkRateLimit: the 429 response; a static asset response carries no status of the worker
StatusOutsideHandler(by) == IF by = "limited" THEN 429 ELSE 0

\* POST /api/log/:publicKey
WorkerAppend(via, key, body, signature) ==
    LET by     == Served(via, key)
        req    == [publicKey |-> key, body |-> body, signature |-> signature]
        status == IF by = "handler" THEN AppendStatus(req) ELSE StatusOutsideHandler(by)
    IN /\ status = 201 => Len(dbEvents) < MaxStoreRows
       /\ dbEvents' = IF status = 201 THEN InsertRow(dbEvents, req) ELSE dbEvents
       /\ storeCall' = [NoStoreCall EXCEPT
              !.op = "append", !.via = via, !.key = key, !.body = body,
              !.signature = signature, !.served = by, !.status = status,
              !.seq = IF status = 201 THEN NextSeq(dbEvents, key) ELSE 0,
              !.queried = (status = 201)]
       /\ UNCHANGED <<nextId, evData, identity, pendingKeyImport, showMergePrompt, loadCall,
                      localOrder, pendingIds, cache, pushTask, syncTask, pullTask,
                      syncCalls, cacheCall, foldLog, pureCall, timerVars>>

\* GET /api/log/:publicKey?after=&limit=
WorkerRead(via, key, after, limit) ==
    LET by    == Served(via, key)
        valid == by = "handler" /\ IsValidPublicKey(key)
    IN /\ storeCall' = [NoStoreCall EXCEPT
              !.op = "read", !.via = via, !.key = key, !.after = after, !.limit = limit,
              !.served = by,
              !.status = IF by # "handler" THEN StatusOutsideHandler(by)
                         ELSE IF valid THEN 200 ELSE 400,
              !.events = IF valid
                         THEN ReadPage(dbEvents, key, AfterOf(after), LimitOf(limit))
                         ELSE <<>>,
              !.has_more = valid /\ ReadHasMore(dbEvents, key, AfterOf(after), LimitOf(limit)),
              !.queried = valid]
       /\ UNCHANGED <<dbEvents, nextId, evData, identity, pendingKeyImport, showMergePrompt,
                      loadCall, localOrder, pendingIds, cache, pushTask, syncTask, pullTask,
                      syncCalls, cacheCall, foldLog, pureCall, timerVars>>

\* HEAD /api/log/:publicKey
WorkerHead(via, key) ==
    LET by    == Served(via, key)
        valid == by = "handler" /\ IsValidPublicKey(key)
    IN /\ storeCall' = [NoStoreCall EXCEPT
              !.op = "head", !.via = via, !.key = key, !.served = by,
              !.status = IF by # "handler" THEN StatusOutsideHandler(by)
                         ELSE IF valid THEN 200 ELSE 400,
              !.count = IF valid THEN HeadEventCount(dbEvents, key) ELSE 0,
              !.latest = IF valid THEN HeadLatestSeq(dbEvents, key) ELSE 0,
              !.queried = valid]
       /\ UNCHANGED <<dbEvents, nextId, evData, identity, pendingKeyImport, showMergePrompt,
                      loadCall, localOrder, pendingIds, cache, pushTask, syncTask, pullTask,
                      syncCalls, cacheCall, foldLog, pureCall, timerVars>>

\* appends of every shape: a sealed, an empty, the largest accepted and an oversized
\* body; no signature header, the key's own signature of a body, another key's
\* signature of the same message
NextAppend ==
    LET bodies     == {SealedBody, EmptyBody, LargestBody, OversizedBody}
        signatures == {NoSignature, SignForAppend("A", SealedBody, "B")} \cup
                      {SignForAppend(pk, SealedBody, pk) : pk \in Identities} \cup
                      {SignForAppend("A", body, "A") : body \in {LargestBody, OversizedBody}}
    IN \E via \in Vias, key \in StoreKeys, body \in bodies, signature \in signatures :
          /\ Len(dbEvents) < MaxAppendRows
          /\ WorkerAppend(via, key, body, signature)

SpecAppend == Init /\ [][NextAppend]_vars

\* reads and heads of every shape over logs filled by signed appends
NextRead ==
    \/ \E via \in Vias, key \in StoreKeys :
          WorkerAppend(via, key, EncryptEvent(1, key),
                       SignForAppend(key, EncryptEvent(1, key), key))
    \/ \E via \in Vias, key \in StoreKeys,
          after \in {AbsentParam, NaNParam} \cup {IntParam(n) : n \in {-1, 1, 2}},
          limit \in {AbsentParam, NaNParam} \cup {IntParam(n) : n \in {0, 1, 2, MAX_LIMIT + 1}} :
          WorkerRead(via, key, after, limit)
    \/ \E via \in Vias, key \in StoreKeys : WorkerHead(via, key)

SpecRead == Init /\ [][NextRead]_vars

\* ---------------------------------------------------------------- properties
\* the event is in the store's log of identity pk
OnStore(e, pk) == \E r \in RowsOf(dbEvents, pk) : DecryptEvent(r.ciphertext, pk) = e

\* a push of the event is waiting on the network on device d
PushInFlight(d, e) ==
    \/ pushTask[d][e].pc \in {"req", "resp", "rejected"}
    \/ /\ syncTask[d].pc = "push"
       /\ syncTask[d].queue[syncTask[d].idx] = e

\* C1: the appends of all devices under one identity are all accepted (none is
\* refused) and the sequence numbers of the identity's N rows are exactly 1..N,
\* each assigned once.
C1_GaplessSequences ==
    /\ \A pk \in Identities :
          {dbEvents[i].seq : i \in {j \in 1..Len(dbEvents) : dbEvents[j].public_key = pk}}
              = 1..Cardinality({i \in 1..Len(dbEvents) : dbEvents[i].public_key = pk})
    /\ \A d \in Devices :
          /\ syncTask[d].net # "rejected"
          /\ \A e \in EventIds : pushTask[d][e].pc # "rejected"

\* two devices have appends accepted while both calls are still in flight
C1_Witness ==
    /\ \E e1 \in EventIds, e2 \in EventIds :
          /\ pushTask["d1"][e1].pc = "resp"
          /\ pushTask["d2"][e2].pc = "resp"
    /\ Len(dbEvents) >= 2

\* C2: every locally authored event that the store has not accepted (and that no
\* push in flight is still carrying) is in its device's local log and pending queue.
C2_NoLocalDataLost ==
    \A d \in Devices : \A e \in EventIds :
        ( /\ evData[e].author = d
          /\ ~OnStore(e, identity[d])
          /\ ~PushInFlight(d, e) )
        => /\ e \in Range(localOrder[d])
           /\ e \in Range(pendingIds[d])

\* C3: when a syncAll run ends because its push step or its pull step failed, the
\* pending queue is left as it was.
C3_FailedSyncKeepsPending ==
    [][\A d \in Devices :
          ( /\ syncTask[d].pc # "idle"
            /\ syncTask'[d].pc = "idle"
            /\ syncTask'[d].outcome \in {"pushFailed", "pullFailed"} )
          => pendingIds'[d] = pendingIds[d]]_vars

\* C4: when a syncAll run completes successfully, every event that was pending when
\* it started is in the identity's server log and the pending queue is empty.
C4_SyncAllUploadsPending ==
    [][\A d \in Devices :
          ( /\ syncTask[d].pc # "idle"
            /\ syncTask'[d].pc = "idle"
            /\ syncTask'[d].outcome = "ok" )
          => /\ \A e \in Range(syncTask[d].queue) : OnStore(e, syncTask[d].pk)
             /\ pendingIds'[d] = <<>>]_vars

\* an event whose pushEvent failed was uploaded by a later, successful syncAll
C4_Witness ==
    \E d \in Devices, e \in EventIds :
        /\ pushTask[d][e].pc = "failed"
        /\ syncTask[d].pc = "idle"
        /\ syncTask[d].outcome = "ok"
        /\ e \in Range(syncTask[d].queue)
        /\ OnStore(e, syncTask[d].pk)
        /\ pendingIds[d] = <<>>

\* C5: in every identity's server log a correction has a strictly greater sequence
\* number than the event it corrects.
C5_CorrectionAfterTarget ==
    \A pk \in Identities : \A rc \in RowsOf(dbEvents, pk) : \A rt \in RowsOf(dbEvents, pk) :
        ( /\ evData[rc.ciphertext.ev].type = "correction"
          /\ evData[rc.ciphertext.ev].ref = rt.ciphertext.ev )
        => rc.seq > rt.seq

\* the cached entries of a cache carry pairwise different sequence numbers
NoDuplicateSeq(c) ==
    \A i \in 1..Len(c.items) : \A j \in 1..Len(c.items) :
        i # j => c.items[i].seq # c.items[j].seq

\* C6 as stated: after appendEvents, addLocalEvent and clearCache calls with
\* arbitrary batches the cache never holds two entries with the same sequence.
C6_NoDuplicateSeqAnyBatch ==
    \A pk \in Identities : NoDuplicateSeq(cache[CacheDevice][pk])

\* C6 as amended: when every batch handed to appendEvents since the cache was last
\* cleared was in strictly ascending sequence order, the cache never holds two
\* entries with the same sequence.
C6_NoDuplicateSeqAscending ==
    cacheCall.asc => \A pk \in Identities : NoDuplicateSeq(cache[CacheDevice][pk])

\* an ascending batch overlapping the cached range was appended and deduplicated
C6_Witness ==
    /\ cacheCall.asc
    /\ cacheCall.op = "appendEvents"
    /\ \E i \in 1..Len(cacheCall.batch) : cacheCall.batch[i].seq <= cacheCall.before
    /\ \E i \in 1..Len(cacheCall.batch) : cacheCall.batch[i].seq > cacheCall.before
    /\ Len(cache[CacheDevice]["A"].items) >= 3

\* C7: re-applying the batch of the latest appendEvents call (a page in ascending
\* order, possibly overlapping what was cached) leaves the cached list and the
\* high-water mark exactly as after the first call.
C7_AppendEventsIdempotent ==
    ( /\ cacheCall.op = "appendEvents"
      /\ IsAscending(cacheCall.batch) )
    => LET pk == identity[CacheDevice]
       IN AppendEvents(cache[CacheDevice][pk], cacheCall.batch) = cache[CacheDevice][pk]

\* an ascending two-entry batch, one entry already cached and one new, was appended
C7_Witness ==
    /\ cacheCall.op = "appendEvents"
    /\ IsAscending(cacheCall.batch)
    /\ Len(cacheCall.batch) = 2
    /\ cacheCall.batch[1].seq <= cacheCall.before
    /\ cacheCall.batch[2].seq > cacheCall.before
    /\ cacheCall.before > 0

C9_PullCachesAllNewEvents ==
    [][\A d \in Devices : \A s \in Slots :
          LET t == pullTask[d][s]
          IN ( /\ t.pc = "getResp"
               /\ pullTask'[d][s].pc = "idle"
               /\ pullTask'[d][s].outcome = "ok" )
             => /\ \A q \in (t.lastSeq + 1)..t.latest :
                      \E i \in 1..Len(cache'[d][t.pk].items) : cache'[d][t.pk].items[i].seq = q
                /\ IsAscending(cache'[d][t.pk].items)]_vars

\* C10: when the probed latest sequence is not greater than the lastSeq the pull
\* read, the pull issues no event fetch and leaves the cache and its high-water
\* mark unchanged; a successful return hands the decrypted cache to the local log.
C10_UpToDatePullIsNoOp ==
    [][\A d \in Devices : \A s \in Slots :
          LET t == pullTask[d][s]
          IN ( /\ t.pc = "headResp"
               /\ t.latest <= t.lastSeq
               /\ pullTask'[d][s] # t )
             => /\ pullTask'[d][s].pc = "idle"
                /\ pullTask'[d][s].fetches = 0
                /\ cache'[d] = cache[d]
                /\ pullTask'[d][s].outcome = "ok" =>
                      localOrder'[d] =
                          MergePulled(localOrder[d], DecryptCachedEvents(cache[d][t.pk], t.pk))]_vars

\* a pull over a non-empty, up-to-date cache returned without fetching
C10_Witness ==
    \E d \in Devices, s \in Slots :
        /\ pullTask[d][s].pc = "idle"
        /\ pullTask[d][s].outcome = "ok"
        /\ pullTask[d][s].fetches = 0
        /\ GetLastSeq(cache[d][identity[d]]) > 0

\* C11: when push(event) returns successfully, the cache holds an entry at the
\* sequence the store assigned (the one the returned record carries) that decrypts
\* to the event; when the upload fails, the push leaves the cache as it was.
C11_PushCachesUnderAssignedSeq ==
    [][\A d \in Devices : \A e \in EventIds :
          LET t == pushTask[d][e]
          IN /\ ( /\ t.pc = "resp"
                  /\ pushTask'[d][e].pc = "done" )
                => \E i \in 1..Len(cache'[d][t.pk].items) :
                      /\ cache'[d][t.pk].items[i].seq = t.seq
                      /\ DecryptEvent(cache'[d][t.pk].items[i].ciphertext, t.pk) = e
             /\ ( /\ t.pc \in {"req", "resp", "rejected"}
                  /\ pushTask'[d][e].pc = "failed" )
                => cache'[d] = cache[d]]_vars

\* C13: pushUnsynced pushes the snapshot one event at a time in queue order and
\* marks each synced when its own push succeeds; when a push fails partway through,
\* the events pushed before it are no longer pending, and the failed event and every
\* event after it are still pending (unless their own pushEvent has succeeded).
C13_PushUnsyncedPartialFailure ==
    [][\A d \in Devices :
          LET t == syncTask[d]
          IN /\ ( /\ t.pc = "push"
                  /\ syncTask'[d].pc = "push"
                  /\ syncTask'[d] # t )
                => /\ syncTask'[d].idx \in {t.idx, t.idx + 1}
                   /\ syncTask'[d].idx = t.idx + 1
                         => t.queue[t.idx] \notin Range(pendingIds'[d])
             /\ ( /\ t.pc = "push"
                  /\ syncTask'[d].pc = "idle" )
                => /\ syncTask'[d].outcome = "pushFailed"
                   /\ \A i \in 1..(t.idx - 1) : t.queue[i] \notin Range(pendingIds'[d])
                   /\ \A i \in t.idx..Len(t.queue) :
                         \/ t.queue[i] \in Range(pendingIds'[d])
                         \/ pushTask[d][t.queue[i]].pc = "done"]_vars

\* a pushUnsynced run failed at its second event: the first is no longer pending,
\* the second still is
C13_Witness ==
    \E d \in Devices :
        /\ syncTask[d].pc = "idle"
        /\ syncTask[d].outcome = "pushFailed"
        /\ syncTask[d].idx = 2
        /\ Len(syncTask[d].queue) = 2
        /\ syncTask[d].queue[1] \notin Range(pendingIds[d])
        /\ syncTask[d].queue[2] \in Range(pendingIds[d])

\* ---------------------------------------------------------------- merge properties
\* the step is a page load (a new app instance)
IsPageLoad == loadCall'.n = loadCall.n + 1

\* the merge prompt of device d is closed by a step of the running app instance
LeavesPrompt(d) ==
    /\ showMergePrompt[d]
    /\ ~showMergePrompt'[d]
    /\ ~IsPageLoad

\* handleMerge took the decision: the prompt closes and syncAll() is started
MergeStep(d) == LeavesPrompt(d) /\ syncTask'[d].pc # "idle"

\* handleDiscard took the decision: the prompt closes and no syncAll() is started
DiscardStep(d) == LeavesPrompt(d) /\ syncTask'[d].pc = "idle"

\* every entry of the caches of a device is a row of the store's log of that identity
CacheFromStore(c, db) ==
    \A pk \in Identities : \A i \in 1..Len(c[pk].items) :
        \E r \in RowsOf(db, pk) :
            /\ r.seq = c[pk].items[i].seq
            /\ r.ciphertext = c[pk].items[i].ciphertext

\* C12 as stated: after any sequence of operations every event in a pending queue
\* was created on that device and has not been observed back from a successful push.
C12_PendingOnlyUnpushed ==
    \A d \in Devices : \A e \in Range(pendingIds[d]) :
        /\ evData[e].author = d
        /\ pushTask[d][e].pc # "done"

\* C12 as amended: an event leaves the pending queue in the step its push succeeds
\* (pushEvent or pushUnsynced), and an event enters the queue only when it is
\* created on the device or when Merge re-queues the whole local log; a pull never
\* places an event in the queue.
C12_PendingOnlyUnpushedOrMerged ==
    [][\A d \in Devices :
          /\ \A e \in EventIds :
                ( /\ pushTask[d][e].pc = "resp"
                  /\ pushTask'[d][e].pc = "done" )
                => e \notin Range(pendingIds'[d])
          /\ ( /\ syncTask[d].pc = "push"
               /\ syncTask[d].net = "resp"
               /\ \/ syncTask'[d].pc = "pull"
                  \/ syncTask'[d].pc = "push" /\ syncTask'[d].idx = syncTask[d].idx + 1 )
             => syncTask[d].queue[syncTask[d].idx] \notin Range(pendingIds'[d])
          /\ \A e \in Range(pendingIds'[d]) \ Range(pendingIds[d]) :
                \/ /\ e = nextId
                   /\ nextId' = nextId + 1
                   /\ evData'[e].author = d
                \/ /\ MergeStep(d)
                   /\ e \in Range(localOrder[d])]_vars

\* a device holds a pulled event of another device outside its pending queue and an
\* event of its own, not yet pushed, inside it
C12_Witness ==
    \E d \in Devices : \E e \in Range(localOrder[d]) : \E f \in Range(pendingIds[d]) :
        /\ evData[e].author # d
        /\ e \notin Range(pendingIds[d])
        /\ evData[f].author = d
        /\ pushTask[d][f].pc = "failed"

\* C14 as stated: a page load with a key link shows the merge prompt exactly when
\* the key is valid, names an identity different from the current one and unsynced
\* (pending) local events exist.
C14_PromptIffUnsyncedEvents ==
    [][IsPageLoad =>
          LET d == MergeDevice
              newIdentity == ImportSecretKey(loadCall'.key)
          IN showMergePrompt'[d] <=>
                /\ newIdentity # "invalid"
                /\ newIdentity # identity[d]
                /\ Len(LoadPendingEvents(pendingIds[d], localOrder[d])) > 0]_vars

\* C14 as amended: a page load with a key link shows the merge prompt exactly when
\* the key is valid, names an identity different from the current one and the local
\* event log is not empty (synced or not); any other valid import adopts the
\* imported identity directly; while the prompt is shown the current identity stays
\* in use and differs from the deferred one.
C14_PromptIffLocalEvents ==
    [][LET d == MergeDevice
           newIdentity == ImportSecretKey(loadCall'.key)
       IN /\ IsPageLoad =>
                /\ showMergePrompt'[d] <=>
                      /\ newIdentity # "invalid"
                      /\ newIdentity # identity[d]
                      /\ Len(localOrder[d]) > 0
                /\ showMergePrompt'[d] =>
                      /\ identity'[d] = identity[d]
                      /\ pendingKeyImport'[d] = loadCall'.key
                /\ (newIdentity # "invalid" /\ ~showMergePrompt'[d]) =>
                      /\ identity'[d] = newIdentity
                      /\ pendingKeyImport'[d] = "none"
          /\ (showMergePrompt[d] /\ showMergePrompt'[d]) =>
                /\ identity'[d] = identity[d]
                /\ ImportSecretKey(pendingKeyImport'[d]) # identity'[d]]_vars

\* the prompt is shown over a local log whose events are all synced
C14_Witness ==
    /\ showMergePrompt[MergeDevice]
    /\ pendingKeyImport[MergeDevice] = "B"
    /\ identity[MergeDevice] = "A"
    /\ Len(localOrder[MergeDevice]) > 0
    /\ pendingIds[MergeDevice] = <<>>

\* C15: taking Merge adopts the imported identity and makes the pending queue the
\* whole local log, events already synced under the old identity included; the
\* local log and the events in it are unchanged.
C15_MergeMarksAllPending ==
    [][\A d \in Devices :
          MergeStep(d) =>
             /\ identity'[d] = ImportSecretKey(pendingKeyImport[d])
             /\ identity'[d] # identity[d]
             /\ pendingIds'[d] = localOrder[d]
             /\ localOrder'[d] = localOrder[d]
             /\ evData' = evData]_vars

\* after Merge the queue holds an event that was synced under the old identity
C15_Witness ==
    \E e \in Range(pendingIds[MergeDevice]) :
        /\ identity[MergeDevice] = "B"
        /\ pushTask[MergeDevice][e].pc = "done"
        /\ OnStore(e, "A")
        /\ syncTask[MergeDevice].pc = "push"

\* C16: the full sync Merge starts pushes the whole local log under the imported
\* identity; when it completes successfully every event of that log is in the new
\* identity's server log; while it runs, every append of the device goes to the new
\* identity's log (the old identity's log receives no write).
C16_MergeSyncUploadsHistory ==
    [][\A d \in Devices :
          /\ MergeStep(d) =>
                /\ syncTask'[d].pk = ImportSecretKey(pendingKeyImport[d])
                /\ syncTask'[d].pk # identity[d]
                /\ Range(syncTask'[d].queue) = Range(localOrder[d])
          /\ ( /\ syncTask[d].pc # "idle"
               /\ syncTask'[d].pc = "idle"
               /\ syncTask'[d].outcome \in {"ok", "pullFailed"} )
             => \A e \in Range(syncTask[d].queue) : OnStore(e, syncTask[d].pk)
          /\ ( /\ syncTask[d].pc # "idle"
               /\ \/ \E e \in EventIds :
                        pushTask[d][e].pc = "req" /\ pushTask'[d][e].pc = "resp"
                  \/ syncTask[d].net = "req" /\ syncTask'[d].net = "resp" )
             => /\ Len(dbEvents') = Len(dbEvents) + 1
                /\ dbEvents'[Len(dbEvents')].public_key = syncTask[d].pk]_vars

\* the sync started by Merge completed: an event synced under the old identity is
\* now in the new identity's log as well
C16_Witness ==
    \E e \in EventIds :
        /\ syncTask[MergeDevice].pc = "idle"
        /\ syncTask[MergeDevice].outcome = "ok"
        /\ syncTask[MergeDevice].pk = "B"
        /\ e \in Range(syncTask[MergeDevice].queue)
        /\ OnStore(e, "A")
        /\ OnStore(e, "B")

\* C17 as stated: taking Discard wipes the local event log, the pending queue and
\* the confirmed-event cache, and adopts the imported identity.
C17_DiscardWipesAll ==
    [][\A d \in Devices :
          DiscardStep(d) =>
             /\ localOrder'[d] = <<>>
             /\ pendingIds'[d] = <<>>
             /\ \A pk \in Identities : cache'[d][pk] = EmptyCache
             /\ identity'[d] = ImportSecretKey(pendingKeyImport[d])]_vars

\* C17 as amended: taking Discard wipes the local event log and the pending queue
\* (the caches stay as they are), adopts the imported identity and starts pulls of
\* its server log; from then on the local log gains only events pulled from the
\* current identity's server log or created afterwards, and every cached entry is
\* a row of the server log of its identity.
C17_DiscardWipesLogAndQueue ==
    [][\A d \in Devices :
          /\ DiscardStep(d) =>
                /\ localOrder'[d] = <<>>
                /\ pendingIds'[d] = <<>>
                /\ identity'[d] = ImportSecretKey(pendingKeyImport[d])
                /\ cache'[d] = cache[d]
                /\ pullTask'[d]["P"].pc = "head"
                /\ pullTask'[d]["P"].pk = identity'[d]
          /\ \A e \in Range(localOrder'[d]) \ Range(localOrder[d]) :
                \/ e = nextId /\ nextId' = nextId + 1
                \/ OnStore(e, identity[d])
          /\ CacheFromStore(cache'[d], dbEvents')]_vars

\* after Discard the pull has filled the local log from the new identity's server
\* log; the cache kept under the old identity is still in storage
C17_Witness ==
    /\ identity[MergeDevice] = "B"
    /\ loadCall.key = "B"
    /\ pendingIds[MergeDevice] = <<>>
    /\ Len(localOrder[MergeDevice]) > 0
    /\ \A e \in Range(localOrder[MergeDevice]) : evData[e].author # MergeDevice
    /\ Len(cache[MergeDevice]["A"].items) > 0
    /\ Len(cache[MergeDevice]["B"].items) > 0

C19_BadKeyImportAborts ==
    [][(IsPageLoad /\ loadCall'.key = "bad") =>
          /\ identity' = identity
          /\ localOrder' = localOrder
          /\ pendingIds' = pendingIds
          /\ cache' = cache
          /\ ~showMergePrompt'[MergeDevice]
          /\ pendingKeyImport'[MergeDevice] = "none"]_vars

\* a bad key link was opened over a device holding synced and unsynced events
C19_Witness ==
    /\ loadCall.key = "bad"
    /\ Len(pendingIds[MergeDevice]) > 0
    /\ Len(cache[MergeDevice]["A"].items) > 0
    /\ identity[MergeDevice] = "A"

\* C20: a pull whose requests were all answered ends normally whatever the cached
\* entries are: entries that do not open or do not hold an event are skipped, and
\* the event of every other cached entry is merged into the local log.
C20_BadEntryNeverAbortsPull ==
    [][\A d \in Devices : \A s \in Slots :
          LET pk == pullTask[d][s].pk
          IN ( /\ pullTask[d][s].pc \in {"headResp", "getResp"}
               /\ pullTask'[d][s].pc = "idle"
               /\ pullTask'[d][s].outcome # "error"
               /\ ~IsPageLoad )
             => /\ pullTask'[d][s].outcome = "ok"
                /\ \A i \in 1..Len(cache'[d][pk].items) :
                      DecryptEvent(cache'[d][pk].items[i].ciphertext, pk) \in EventIds
                      => DecryptEvent(cache'[d][pk].items[i].ciphertext, pk)
                            \in Range(localOrder'[d])]_vars

\* ---------------------------------------------------------------- worker properties
\* the rows of the addressed identity with seq > after (every row when the
\* parameter is absent or not a number)
RowsAfter ==
    {r \in RowsOf(dbEvents, storeCall.key) :
        storeCall.after.kind = "int" => r.seq > storeCall.after.n}

\* the page cap as the read contract states it: default 1000, clamped to 1..5000
PageCap ==
    LET p == storeCall.limit
    IN IF p.kind # "int" THEN 1000
       ELSE IF p.n < 1 THEN 1
       ELSE IF p.n > 5000 THEN 5000
       ELSE p.n

\* C23: a read returns exactly the lowest-sequence events of the addressed
\* identity with seq > after, in ascending order, at most the effective page cap
\* (default 1000, clamped to 1..5000) of them, and never a row of another identity
C23_ReadReturnsLowestPage ==
    (storeCall.op = "read" /\ storeCall.status = 200) =>
        LET page     == storeCall.events
            PageSeqs == {page[i].seq : i \in 1..Len(page)}
        IN /\ Len(page) = IF Cardinality(RowsAfter) > PageCap
                          THEN PageCap ELSE Cardinality(RowsAfter)
           /\ \A i \in 1..Len(page) :
                 \E r \in RowsAfter : r.seq = page[i].seq /\ r.ciphertext = page[i].ciphertext
           /\ \A i \in 1..Len(page) : \A j \in 1..Len(page) :
                 i < j => page[i].seq < page[j].seq
           /\ \A r \in RowsAfter : r.seq \notin PageSeqs =>
                 \A q \in PageSeqs : q < r.seq

\* a page cut at the cap, after a positive cursor, from a table that also holds a
\* row of the other identity
C23_Witness ==
    /\ storeCall.op = "read" /\ storeCall.status = 200
    /\ storeCall.after = IntParam(1)
    /\ Len(storeCall.events) = PageCap
    /\ Cardinality(RowsAfter) > PageCap
    /\ \E i \in 1..Len(dbEvents) : dbEvents[i].public_key # storeCall.key

\* C24: has_more is true exactly when the identity's log holds an event with
\* seq > after beyond those returned
C24_HasMoreIffRowsBeyondPage ==
    (storeCall.op = "read" /\ storeCall.status = 200) =>
        (storeCall.has_more <=>
            \E r \in RowsAfter :
               \A i \in 1..Len(storeCall.events) : storeCall.events[i].seq # r.seq)

\* a read whose page is full and leaves nothing behind: has_more is false
C24_Witness ==
    /\ storeCall.op = "read" /\ storeCall.status = 200
    /\ Len(storeCall.events) = PageCap
    /\ Len(storeCall.events) = Cardinality(RowsAfter)
    /\ ~storeCall.has_more

C27_SignatureBindsKeyAndCiphertext ==
    (storeCall.op = "append" /\ storeCall.status = 201) =>
        /\ storeCall.signature.pk = storeCall.key
        /\ storeCall.signature.ct = storeCall.body
        /\ storeCall.signature.signer = storeCall.key

\* the signature of A over the sealed body, already accepted for that pair, is
\* refused when sent with the same body to the log of B
C27_Witness ==
    /\ storeCall.op = "append"
    /\ storeCall.served = "handler"
    /\ storeCall.key = "B"
    /\ storeCall.body = SealedBody
    /\ storeCall.signature = SignForAppend("A", SealedBody, "A")
    /\ storeCall.status = 400
    /\ \E r \in RowsOf(dbEvents, "A") : r.ciphertext = SealedBody

\* ---------------------------------------------------------------- sessions
\* An event of the fold is a record of its id, type, ts and the data fields of its
\* variant; durations are kept in seconds (duration_minutes * 60), so that
\* fractions of a minute stay integers.  A correction's started_at, ended_at and
\* duration are those of its replacement, present when hasReplacement.
TimerStartEvent(id, ts) ==
    [id |-> id, type |-> "timer_start", ts |-> ts, ref |-> 0, action |-> "none",
     started_at |-> 0, ended_at |-> 0, duration |-> 0, hasReplacement |-> FALSE]

TimerStopEvent(id, ts, startEventId, duration) ==
    [id |-> id, type |-> "timer_stop", ts |-> ts, ref |-> startEventId, action |-> "none",
     started_at |-> 0, ended_at |-> 0, duration |-> duration, hasReplacement |-> FALSE]

ManualEntryEvent(id, ts, startedAt, endedAt, duration) ==
    [id |-> id, type |-> "manual_entry", ts |-> ts, ref |-> 0, action |-> "none",
     started_at |-> startedAt, ended_at |-> endedAt, duration |-> duration,
     hasReplacement |-> FALSE]

DeleteEvent(id, ts, correctsEventId) ==
    [id |-> id, type |-> "correction", ts |-> ts, ref |-> correctsEventId,
     action |-> "delete", started_at |-> 0, ended_at |-> 0, duration |-> 0,
     hasReplacement |-> FALSE]

ReplaceEvent(id, ts, correctsEventId, hasReplacement, startedAt, endedAt, duration) ==
    [id |-> id, type |-> "correction", ts |-> ts, ref |-> correctsEventId,
     action |-> "replace", started_at |-> startedAt, ended_at |-> endedAt,
     duration |-> duration, hasReplacement |-> hasReplacement]

GoalSetEvent(id, ts) ==
    [id |-> id, type |-> "goal_set", ts |-> ts, ref |-> 0, action |-> "none",
     started_at |-> 0, ended_at |-> 0, duration |-> 0, hasReplacement |-> FALSE]

RoundUpToMinuteBug(seconds) == IF seconds <= 0 THEN 0 ELSE seconds \div 60

\* roundUpToMinute(minutes): 0 when not positive, else Math.max(1, Math.ceil(minutes))
RoundUpToMinute(seconds) ==
    IF seconds <= 0 THEN 0
    ELSE LET ceil == (seconds + 59) \div 60
         IN IF ceil < 1 THEN 1 ELSE ceil

\* Map.has, Map.get, Map.set and Map.delete on a Map kept as the sequence of its
\* values in insertion order, keyed by their id
MapHas(m, id) == \E i \in 1..Len(m) : m[i].id = id

MapGet(m, id) == m[CHOOSE i \in 1..Len(m) : m[i].id = id]

MapSet(m, v) ==
    IF MapHas(m, v.id)
    THEN [i \in 1..Len(m) |-> IF m[i].id = v.id THEN v ELSE m[i]]
    ELSE Append(m, v)

MapDelete(m, id) ==
    LET keep(v) == v.id # id
    IN SelectSeq(m, keep)

\* reconstructSessions: sessions, deletedIds and pendingStarts before the loop
EmptyFold == [sessions |-> <<>>, deletedIds |-> {}, pendingStarts |-> <<>>]

FoldTimerStopBug(st, event) ==
    IF MapHas(st.pendingStarts, event.ref)
    THEN LET start == MapGet(st.pendingStarts, event.ref)
         IN [st EXCEPT
               !.sessions = MapSet(@, [id |-> start.id,
                                       startedAt |-> start.ts,
                                       endedAt |-> event.ts,
                                       durationMinutes |-> RoundUpToMinute(event.duration),
                                       source |-> "timer"]),
               !.pendingStarts = MapDelete(@, start.id)]
    ELSE IF MapHas(st.sessions, event.ref)
    THEN [st EXCEPT !.sessions =
             MapSet(@, [MapGet(st.sessions, event.ref) EXCEPT !.endedAt = event.ts])]
    ELSE st

\* case 'timer_stop'
FoldTimerStop(st, event) ==
    IF MapHas(st.pendingStarts, event.ref)
    THEN LET start == MapGet(st.pendingStarts, event.ref)
         IN [st EXCEPT
               !.sessions = MapSet(@, [id |-> start.id,
                                       startedAt |-> start.ts,
                                       endedAt |-> event.ts,
                                       durationMinutes |-> RoundUpToMinute(event.duration),
                                       source |-> "timer"]),
               !.pendingStarts = MapDelete(@, start.id)]
    ELSE st

FoldDeleteBug(st, event) == [st EXCEPT !.sessions = MapDelete(@, event.ref)]

\* case 'correction', action 'delete'
FoldDelete(st, event) ==
    [st EXCEPT !.deletedIds = @ \cup {event.ref},
               !.sessions = MapDelete(@, event.ref)]

FoldReplaceBug(st, event) ==
    IF event.hasReplacement
    THEN [st EXCEPT !.sessions =
             MapSet(@, [id |-> event.ref,
                        startedAt |-> event.started_at,
                        endedAt |-> event.ended_at,
                        durationMinutes |-> RoundUpToMinute(event.duration),
                        source |-> "manual"])]
    ELSE st

\* case 'correction', action 'replace' with a replacement
FoldReplace(st, event) ==
    IF event.hasReplacement /\ MapHas(st.sessions, event.ref)
    THEN LET existing == MapGet(st.sessions, event.ref)
         IN [st EXCEPT !.sessions =
                MapSet(@, [existing EXCEPT
                              !.startedAt = event.started_at,
                              !.endedAt = event.ended_at,
                              !.durationMinutes = RoundUpToMinute(event.duration)])]
    ELSE st

\* reconstructSessions: the body of the loop, switch (event.type)
FoldEvent(st, event) ==
    IF event.type = "timer_start"
    THEN [st EXCEPT !.pendingStarts = MapSet(@, event)]
    ELSE IF event.type = "timer_stop" THEN FoldTimerStop(st, event)
    ELSE IF event.type = "manual_entry"
    THEN [st EXCEPT !.sessions =
             MapSet(@, [id |-> event.id,
                        startedAt |-> event.started_at,
                        endedAt |-> event.ended_at,
                        durationMinutes |-> RoundUpToMinute(event.duration),
                        source |-> "manual"])]
    ELSE IF event.type = "correction" /\ event.action = "delete" THEN FoldDelete(st, event)
    ELSE IF event.type = "correction" /\ event.action = "replace" THEN FoldReplace(st, event)
    ELSE st

RECURSIVE FoldPrefix(_, _)
\* reconstructSessions: the loop over the first n events
FoldPrefix(events, n) ==
    IF n = 0 THEN EmptyFold ELSE FoldEvent(FoldPrefix(events, n - 1), events[n])

RECURSIVE SortByStartDesc(_)
\* .sort((a, b) => b.startedAt - a.startedAt): stable, latest start first
SortByStartDesc(list) ==
    IF list = <<>> THEN <<>>
    ELSE LET first == CHOOSE i \in 1..Len(list) :
                         /\ \A j \in 1..Len(list) : list[j].startedAt <= list[i].startedAt
                         /\ \A j \in 1..(i - 1) : list[j].startedAt < list[i].startedAt
             rest  == [j \in 1..(Len(list) - 1) |-> IF j < first THEN list[j] ELSE list[j + 1]]
         IN <<list[first]>> \o SortByStartDesc(rest)

\* reconstructSessions(events)
ReconstructSessions(events) ==
    LET st == FoldPrefix(events, Len(events))
        notDeleted(v) == v.id \notin st.deletedIds
    IN SortByStartDesc(SelectSeq(st.sessions, notDeleted))

\* ---------------------------------------------------------------- session driver
\* event lists of any shape, grown one event at a time; the id of an event is its
\* position in the list
FoldAppend(event) ==
    /\ Len(foldLog) < MaxFold
    /\ foldLog' = Append(foldLog, event)
    /\ UNCHANGED <<dbEvents, nextId, evData, identity, pendingKeyImport, showMergePrompt,
                   loadCall, localOrder, pendingIds, cache, pushTask, syncTask, pullTask,
                   syncCalls, cacheCall, storeCall, pureCall, timerVars>>

NextFold ==
  LET NextFoldId == Len(foldLog) + 1
      FoldIds    == 1..(MaxFold - 1)
  IN
    \/ \E ts \in {1000, 1005} : FoldAppend(TimerStartEvent(NextFoldId, ts))
    \/ \E ts \in {1005, 1900}, ref \in FoldIds, duration \in {5, 900} :
          FoldAppend(TimerStopEvent(NextFoldId, ts, ref, duration))
    \/ FoldAppend(ManualEntryEvent(NextFoldId, 4000, 0, 3600, 3600))
    \/ \E ref \in FoldIds : FoldAppend(DeleteEvent(NextFoldId, 4000, ref))
    \/ \E ref \in FoldIds, hasReplacement \in BOOLEAN :
          FoldAppend(ReplaceEvent(NextFoldId, 4000, ref, hasReplacement, 0, 7170, 7170))
    \/ FoldAppend(GoalSetEvent(NextFoldId, 4000))

SpecFold == Init /\ [][NextFold]_vars

\* ---------------------------------------------------------------- convergence driver
\* two clients of one identity over a network that loses nothing: events are
\* created, pushed and pulled in any order; once every event has been created and
\* every push has been confirmed, so that the server log no longer changes, the
\* clients run syncAll
NextConverge ==
    \/ \E d \in Devices : SaveManual(d)
    \/ \E d \in Devices : DeleteSession(d)
    \/ \E d \in Devices, e \in EventIds : StoreAppendPush(d, e)
    \/ \E d \in Devices, e \in EventIds : PushEventDone(d, e)
    \/ \E d \in Devices : PullStart(d)
    \/ \E d \in Devices :
          /\ nextId > MaxEvents
          /\ \A o \in Devices : pendingIds[o] = <<>> /\ pullTask[o]["P"].pc = "idle"
          /\ SyncAllStart(d)
    \/ \E d \in Devices, s \in {"P", "S"} : StoreHead(d, s)
    \/ \E d \in Devices, s \in {"P", "S"} : StoreRead(d, s)
    \/ \E d \in Devices, s \in {"P", "S"} : PullOnHead(d, s)
    \/ \E d \in Devices, s \in {"P", "S"} : PullOnPage(d, s)

SpecConverge == Init /\ [][NextConverge]_vars

\* ---------------------------------------------------------------- sealed box
\* a key pair is named by its owner: an identity's X25519 pair (derived from its
\* signing pair, publicKey = scalarMult.base(secretKey)) or an ephemeral pair
\* sealedBoxNonce: SHA-512 of ephemeralPK || recipientPK, cut to 24 bytes
SealedBoxNonce(ephemeralPK, recipientPK) == <<ephemeralPK, recipientPK>>

\* sealedBoxSeal(message, recipientX25519PK) with the ephemeral pair that
\* nacl.box.keyPair() returned: ephemeral public key (32) || nacl.box of the message
\* under the nonce and the key shared by the recipient's and the ephemeral pair
\* (message.length + 16)
SealedBoxSeal(message, recipientPK, ephemeral) ==
    [ephemeralPK |-> ephemeral,
     nonce       |-> SealedBoxNonce(ephemeral, recipientPK),
     shared      |-> {recipientPK, ephemeral},
     message     |-> message,
     length      |-> 32 + Len(message) + 16]

SealedBoxOpenBug(sealed, recipientPK, recipientSK) ==
    IF sealed.length <= 48 THEN [ok |-> FALSE, message |-> <<>>]
    ELSE IF /\ sealed.nonce = SealedBoxNonce(sealed.ephemeralPK, recipientPK)
            /\ sealed.shared = {sealed.ephemeralPK, recipientSK}
         THEN [ok |-> TRUE, message |-> sealed.message]
         ELSE [ok |-> FALSE, message |-> <<>>]

\* sealedBoxOpen(sealed, recipientX25519PK, recipientX25519SK): null (ok = FALSE)
\* for fewer than 48 bytes or when nacl.box.open rejects the box
SealedBoxOpen(sealed, recipientPK, recipientSK) ==
    IF sealed.length < 48 THEN [ok |-> FALSE, message |-> <<>>]
    ELSE IF /\ sealed.nonce = SealedBoxNonce(sealed.ephemeralPK, recipientPK)
            /\ sealed.shared = {sealed.ephemeralPK, recipientSK}
         THEN [ok |-> TRUE, message |-> sealed.message]
         ELSE [ok |-> FALSE, message |-> <<>>]

\* ---------------------------------------------------------------- function driver
\* roundUpToMinute(seconds / 60) for a duration of any sign
RoundUpToMinuteCall(seconds) ==
    /\ pureCall' = [op |-> "roundUpToMinute", seconds |-> seconds,
                    minutes |-> RoundUpToMinute(seconds), message |-> <<>>,
                    sealedFor |-> "none", openedBy |-> "none",
                    opened |-> [ok |-> FALSE, message |-> <<>>]]
    /\ UNCHANGED <<dbEvents, nextId, evData, identity, pendingKeyImport, showMergePrompt,
                   loadCall, localOrder, pendingIds, cache, pushTask, syncTask, pullTask,
                   syncCalls, cacheCall, storeCall, foldLog, timerVars>>

\* sealedBoxOpen(sealedBoxSeal(message, pub), pub', secret') for the key pair of
\* identity `recipient` and the key pair of identity `opener`
SealedBoxCall(message, recipient, ephemeral, opener) ==
    /\ pureCall' = [op |-> "sealedBox", seconds |-> 0, minutes |-> 0, message |-> message,
                    sealedFor |-> recipient, openedBy |-> opener,
                    opened |-> SealedBoxOpen(SealedBoxSeal(message, recipient, ephemeral),
                                             opener, opener)]
    /\ UNCHANGED <<dbEvents, nextId, evData, identity, pendingKeyImport, showMergePrompt,
                   loadCall, localOrder, pendingIds, cache, pushTask, syncTask, pullTask,
                   syncCalls, cacheCall, storeCall, foldLog, timerVars>>

\* durations from -MaxSeconds to MaxSeconds seconds; messages of up to MaxMessage
\* bytes, sealed for either identity with either of two ephemeral pairs
NextPure ==
    \/ \E seconds \in (0 - MaxSeconds)..MaxSeconds : RoundUpToMinuteCall(seconds)
    \/ \E message \in UNION {[1..n -> {0, 255}] : n \in 0..MaxMessage},
          recipient \in Identities, ephemeral \in {"e1", "e2"}, opener \in Identities :
          SealedBoxCall(message, recipient, ephemeral, opener)

SpecPure == Init /\ [][NextPure]_vars

\* ---------------------------------------------------------------- timer
\* the clock advances by a second
Tick ==
    /\ now < MaxNow
    /\ now' = now + 1
    /\ UNCHANGED <<driverVars, activeTimer, localItem, dbEvents, nextId, evData, identity,
                   pendingKeyImport, showMergePrompt, loadCall, localOrder, pendingIds, cache,
                   pushTask, syncTask, pullTask, syncCalls, cacheCall>>

\* createTimerStop(startEvent): ts: now, duration_minutes: (now - startEvent.ts) / 60
CreateTimerStop(id, startEvent, clock) ==
    TimerStopEvent(id, clock, startEvent.id, clock - startEvent.ts)

\* Timer.startTimer: createTimerStart() ({ id: generateId(), ts: now }), appendEvent, saveActiveTimer, onpush
StartTimer(d) ==
    /\ activeTimer[d] = NoTimer
    /\ CreateEvent(d, TimerStartEvent(nextId, now))
    /\ activeTimer' = [activeTimer EXCEPT ![d] = TimerStartEvent(nextId, now)]

\* Timer.stopTimer: createTimerStop(activeTimer), appendEvent, saveActiveTimer(null),
\* onpush
StopTimer(d) ==
    /\ activeTimer[d] # NoTimer
    /\ CreateEvent(d, CreateTimerStop(nextId, activeTimer[d], now))
    /\ activeTimer' = [activeTimer EXCEPT ![d] = NoTimer]

\* updateStoredEvent(updated): the stored item of the event's id is overwritten
UpdateStoredEvent(items, event) == [items EXCEPT ![event.id] = event]

\* Timer.saveStartTimeEdit: the start time must be in the past; the running timer's
\* timer_start is rewritten with the new ts, in the event store and as active timer
SaveStartTimeEdit(d, newTs) ==
    /\ activeTimer[d] # NoTimer
    /\ ~(newTs >= now)
    /\ LET updated == [activeTimer[d] EXCEPT !.ts = newTs]
       IN /\ localItem' = [localItem EXCEPT ![d] = UpdateStoredEvent(@, updated)]
          /\ activeTimer' = [activeTimer EXCEPT ![d] = updated]
    /\ UNCHANGED <<driverVars, now, dbEvents, nextId, evData, identity, pendingKeyImport,
                   showMergePrompt, loadCall, localOrder, pendingIds, cache, pushTask,
                   syncTask, pullTask, syncCalls, cacheCall>>

\* the timer on one device, its pushes, and a second device of the same identity
\* that pulls
NextTimer ==
    \/ Tick
    \/ StartTimer("d1")
    \/ \E newTs \in 0..MaxNow : SaveStartTimeEdit("d1", newTs)
    \/ StopTimer("d1")
    \/ \E e \in EventIds : StoreAppendPush("d1", e)
    \/ \E e \in EventIds : PushEventDone("d1", e)
    \/ \E e \in EventIds : PushEventFail("d1", e)
    \/ PullStart("d2")
    \/ StoreHead("d2", "P")
    \/ StoreRead("d2", "P")
    \/ PullOnHead("d2", "P")
    \/ PullOnPage("d2", "P")
    \/ PullFail("d2", "P")

SpecTimer == Init /\ [][NextTimer]_vars

\* ---------------------------------------------------------------- end to end
\* ApiClient.append: the X-Signature header is signForAppend over the ciphertext, the
\* body is JSON.stringify({ ciphertext: ciphertextBase64 })
ApiAppendRequest(pk, ct) ==
    [publicKey |-> pk, body |-> [ciphertext |-> ct], signature |-> SignForAppend(pk, ct, pk)]

\* the store handles the POST request that ApiClient.append sent: handleAppend takes
\* request.text(), the whole body, as the ciphertext it verifies and inserts
ApiAppendPush(d, e) ==
    LET t   == pushTask[d][e]
        req == ApiAppendRequest(t.pk, EncryptEvent(e, t.pk))
    IN /\ t.pc = "req"
       /\ Len(dbEvents) < MaxRows
       /\ IF AppendStatus(req) = 201
          THEN /\ dbEvents' = InsertRow(dbEvents, req)
               /\ pushTask' = [pushTask EXCEPT ![d][e] =
                                  [t EXCEPT !.pc = "resp", !.seq = NextSeq(dbEvents, t.pk)]]
          ELSE /\ pushTask' = [pushTask EXCEPT ![d][e].pc = "rejected"]
               /\ UNCHANGED dbEvents
       /\ UNCHANGED <<driverVars, timerVars, nextId, evData, identity, pendingKeyImport,
                      showMergePrompt, loadCall, localOrder, pendingIds, cache, syncTask,
                      pullTask, syncCalls, cacheCall>>

\* one client runs the timer and pushes both events over a network that loses
\* nothing; once both pushes have returned, a fresh client of the same identity
\* pulls. Every request gets its answer, so a push fails only when the store
\* refuses it
NextE2E ==
    \/ Tick
    \/ StartTimer("d1")
    \/ StopTimer("d1")
    \/ \E e \in EventIds : ApiAppendPush("d1", e)
    \/ \E e \in EventIds : pushTask["d1"][e].pc = "rejected" /\ PushEventFail("d1", e)
    \/ /\ nextId > MaxEvents
       /\ \A e \in EventIds : pushTask["d1"][e].pc \in {"done", "failed"}
       /\ PullStart("d2")
    \/ StoreHead("d2", "P")
    \/ PullOnHead("d2", "P")

SpecE2E == Init /\ [][NextE2E]_vars

\* ---------------------------------------------------------------- session properties
\* the state of the fold before and after the event appended last
FoldBefore(log) == FoldPrefix(log, Len(log) - 1)

FoldAfter(log) == FoldPrefix(log, Len(log))

LastEvent(log) == log[Len(log)]

\* the last event of the list is a timer_stop whose start is pending at that point
StopOfPendingStart(log) ==
    /\ Len(log) > 0
    /\ LastEvent(log).type = "timer_stop"
    /\ MapHas(FoldBefore(log).pendingStarts, LastEvent(log).ref)

\* C28 as stated: for a timer_stop whose start is pending, reconstructSessions
\* produces one session keyed by the start's id with start = start.ts, end = stop.ts
\* and duration = roundUpToMinute((stop.ts - start.ts)/60), and the start is no
\* longer pending
C28_StopDurationFromTimestamps ==
    [][StopOfPendingStart(foldLog') =>
          LET stop  == LastEvent(foldLog')
              start == MapGet(FoldBefore(foldLog').pendingStarts, stop.ref)
              after == FoldAfter(foldLog')
          IN /\ MapHas(after.sessions, start.id)
             /\ MapGet(after.sessions, start.id) =
                   [id |-> start.id, startedAt |-> start.ts, endedAt |-> stop.ts,
                    durationMinutes |-> RoundUpToMinute(stop.ts - start.ts),
                    source |-> "timer"]
             /\ Cardinality({i \in 1..Len(after.sessions) :
                                after.sessions[i].id = start.id}) = 1
             /\ ~MapHas(after.pendingStarts, start.id)]_vars

\* C31: a timer_stop whose referenced timer_start is not pending at that point of the
\* fold (never seen so far, or already closed by an earlier stop) is ignored: it
\* produces no session and changes no existing session
C31_UnmatchedStopIgnored ==
    [][(/\ LastEvent(foldLog').type = "timer_stop"
        /\ ~MapHas(FoldBefore(foldLog').pendingStarts, LastEvent(foldLog').ref)) =>
          /\ FoldAfter(foldLog') = FoldBefore(foldLog')
          /\ ReconstructSessions(foldLog') = ReconstructSessions(foldLog)]_vars

\* a second stop of a start that an earlier stop closed, with another timestamp: the
\* session of the first stop is in the output as it was
C31_Witness ==
    /\ Len(foldLog) > 2
    /\ LastEvent(foldLog).type = "timer_stop"
    /\ ~MapHas(FoldBefore(foldLog).pendingStarts, LastEvent(foldLog).ref)
    /\ \E i \in 1..Len(ReconstructSessions(foldLog)) :
          /\ ReconstructSessions(foldLog)[i].id = LastEvent(foldLog).ref
          /\ ReconstructSessions(foldLog)[i].endedAt # LastEvent(foldLog).ts

\* C32: for any event list, findActiveTimerStart returns a timer_start that no
\* timer_stop references and no delete correction targets, one with the latest
\* timestamp among all such starts, and returns none exactly when there is no such
\* start
C32_ActiveStartIsLatestOpenStart ==
    LET found == FindActiveTimerStart(foldLog)
        open  == {i \in 1..Len(foldLog) :
                     /\ foldLog[i].type = "timer_start"
                     /\ ~\E j \in 1..Len(foldLog) :
                           /\ foldLog[j].ref = foldLog[i].id
                           /\ \/ foldLog[j].type = "timer_stop"
                              \/ foldLog[j].type = "correction" /\ foldLog[j].action = "delete"}
    IN /\ found = NoTimer <=> open = {}
       /\ found # NoTimer =>
             /\ \E i \in open : foldLog[i] = found
             /\ \A i \in open : foldLog[i].ts <= found.ts

\* an older start that a stop closed, then two open starts of which the earlier in
\* the list has the later timestamp: that one is returned
C32_Witness ==
    /\ Len(foldLog) = 4
    /\ foldLog[1].type = "timer_start"
    /\ foldLog[2].type = "timer_stop" /\ foldLog[2].ref = 1
    /\ foldLog[3].type = "timer_start"
    /\ foldLog[4].type = "timer_start" /\ foldLog[4].ts < foldLog[3].ts
    /\ foldLog[1].ts < foldLog[3].ts
    /\ FindActiveTimerStart(foldLog) = foldLog[3]

\* the last event of the list is a replace correction that carries a replacement
ReplaceAppended(log) ==
    /\ Len(log) > 0
    /\ LastEvent(log).type = "correction"
    /\ LastEvent(log).action = "replace"
    /\ LastEvent(log).hasReplacement

\* C29: a replace correction overwrites the start, end and duration (re-rounded
\* with roundUpToMinute) of the session that exists under the referenced id at
\* that point of the fold, keeping its id, its source and every other session; if
\* no session exists under that id, the replace changes nothing
C29_ReplaceOverwritesExistingSession ==
    [][ReplaceAppended(foldLog') =>
          LET event  == LastEvent(foldLog')
              before == FoldBefore(foldLog')
              after  == FoldAfter(foldLog')
          IN IF \E i \in 1..Len(before.sessions) : before.sessions[i].id = event.ref
             THEN /\ after.deletedIds = before.deletedIds
                  /\ after.pendingStarts = before.pendingStarts
                  /\ Len(after.sessions) = Len(before.sessions)
                  /\ \A i \in 1..Len(before.sessions) :
                        IF before.sessions[i].id = event.ref
                        THEN after.sessions[i] =
                               [id |-> event.ref,
                                source |-> before.sessions[i].source,
                                startedAt |-> event.started_at,
                                endedAt |-> event.ended_at,
                                durationMinutes |-> RoundUpToMinute(event.duration)]
                        ELSE after.sessions[i] = before.sessions[i]
             ELSE /\ after = before
                  /\ ReconstructSessions(foldLog') = ReconstructSessions(foldLog)]_vars

\* a timer session replaced: the output holds it under the same id and source with
\* the replacement's start, end and 7170 seconds rounded up to 120 minutes
C29_Witness ==
    /\ ReplaceAppended(foldLog)
    /\ \E i \in 1..Len(FoldBefore(foldLog).sessions) :
          /\ FoldBefore(foldLog).sessions[i].id = LastEvent(foldLog).ref
          /\ FoldBefore(foldLog).sessions[i].source = "timer"
    /\ \E i \in 1..Len(ReconstructSessions(foldLog)) :
          ReconstructSessions(foldLog)[i] =
             [id |-> LastEvent(foldLog).ref, source |-> "timer", startedAt |-> 0,
              endedAt |-> 7170, durationMinutes |-> 120]

\* C30: the output of reconstructSessions is exactly the realized sessions whose
\* id is not in the deleted set; a delete correction adds its target to the deleted
\* set and removes the session realized under it, so no session whose id a delete
\* correction references is in the output
C30_OutputExcludesDeleted ==
    LET st  == FoldAfter(foldLog)
        out == ReconstructSessions(foldLog)
        DeleteTargets ==
            {foldLog[i].ref : i \in {j \in 1..Len(foldLog) :
                foldLog[j].type = "correction" /\ foldLog[j].action = "delete"}}
    IN /\ st.deletedIds = DeleteTargets
       /\ Range(out) = {v \in Range(st.sessions) : v.id \notin st.deletedIds}
       /\ Len(out) = Cardinality(Range(out))
       /\ \A i \in 1..Len(out) : out[i].id \notin DeleteTargets
       /\ (Len(foldLog) > 0 /\ LastEvent(foldLog).type = "correction"
              /\ LastEvent(foldLog).action = "delete") =>
             ~MapHas(st.sessions, LastEvent(foldLog).ref)

\* a delete placed before the stop that realizes its target: the session is in the
\* map of realized sessions and still kept out of the output, next to one that stays
C30_Witness ==
    /\ \E i \in 1..Len(FoldAfter(foldLog).sessions) :
          FoldAfter(foldLog).sessions[i].id \in FoldAfter(foldLog).deletedIds
    /\ Len(ReconstructSessions(foldLog)) = 1

\* ---------------------------------------------------------------- timer properties
\* C22: events are immutable once created: after an event has been appended to the
\* local log, its stored content (id, type, timestamp, data) is never modified by
\* any later operation, be it the item of the event store or the copy of a running
\* timer's timer_start kept as the active timer
C22_StoredEventsNeverModified ==
    [][\A d \in Devices :
          /\ \A e \in EventIds :
                (e \in Range(localOrder[d]) /\ e \in Range(localOrder'[d])) =>
                    localItem'[d][e] = localItem[d][e]
          /\ (/\ activeTimer[d] # NoTimer
              /\ activeTimer'[d] # NoTimer
              /\ activeTimer'[d].id = activeTimer[d].id) =>
                 activeTimer'[d] = activeTimer[d]]_vars

\* ---------------------------------------------------------------- end-to-end properties
\* C21: after a client has pushed a timer_start and then the matching timer_stop,
\* the store holds them at seq 1 and seq 2, and a fresh client of the same identity
\* that pulls from sequence 0 reconstructs exactly one session whose start and end
\* are the timestamps of the start and the stop
C21_FreshClientReconstructsSession ==
    (/\ evData[1].type = "timer_start"
     /\ evData[2].type = "timer_stop"
     /\ evData[2].ref = 1
     /\ \A e \in {1, 2} : pushTask["d1"][e].pc \in {"done", "failed"}
     /\ pullTask["d2"]["P"].pc = "idle"
     /\ pullTask["d2"]["P"].outcome = "ok") =>
        LET sessions == ReconstructSessions(LoadEvents(localOrder["d2"], localItem["d2"]))
        IN /\ \E i \in 1..Len(dbEvents) :
                 dbEvents[i].seq = 1 /\ DecryptEvent(dbEvents[i].ciphertext, "A") = 1
           /\ \E i \in 1..Len(dbEvents) :
                 dbEvents[i].seq = 2 /\ DecryptEvent(dbEvents[i].ciphertext, "A") = 2
           /\ Len(sessions) = 1
           /\ sessions[1].startedAt = evData[1].ts
           /\ sessions[1].endedAt = evData[2].ts

\* ---------------------------------------------------------------- function properties
\* C33: roundUpToMinute maps every non-positive duration to 0 and every positive
\* duration to the smallest whole number of minutes that is at least the duration,
\* which is never less than 1
C33_RoundsUpToWholeMinutes ==
    pureCall.op = "roundUpToMinute" =>
        IF pureCall.seconds <= 0 THEN pureCall.minutes = 0
        ELSE /\ pureCall.minutes * 60 >= pureCall.seconds
             /\ (pureCall.minutes - 1) * 60 < pureCall.seconds
             /\ pureCall.minutes >= 1

\* a duration of two minutes and one second is rounded up to three minutes
C33_Witness ==
    /\ pureCall.op = "roundUpToMinute"
    /\ pureCall.seconds = 121
    /\ pureCall.minutes = 3

C35_PullLeavesCacheComplete ==
    [][\A d \in Devices : \A s \in Slots :
          LET t == pullTask[d][s]
          IN (/\ t.pc \in {"headResp", "getResp"}
              /\ pullTask'[d][s].pc = "idle"
              /\ pullTask'[d][s].outcome = "ok"
              /\ HeadLatestSeq(dbEvents, t.pk) = t.latest) =>
                 \A q \in 1..HeadLatestSeq(dbEvents', t.pk) :
                    \E i \in 1..Len(cache'[d][t.pk].items) :
                       /\ cache'[d][t.pk].items[i].seq = q
                       /\ \E r \in RowsOf(dbEvents', t.pk) :
                             /\ r.seq = q
                             /\ r.ciphertext = cache'[d][t.pk].items[i].ciphertext]_vars

\* C36: two clients of the same identity that have each completed a successful sync
\* against the same server log and have no pending events reconstruct the same set
\* of sessions, whatever order the events were created, pushed and pulled in
C36_SyncedClientsSameSessions ==
    (\A d \in Devices :
        /\ syncTask[d].pc = "idle"
        /\ syncTask[d].outcome = "ok"
        /\ pendingIds[d] = <<>>) =>
        SessionIds(localOrder["d1"]) = SessionIds(localOrder["d2"])

\* C37: every locally authored event is appended to a given identity's server log
\* at most once, under any interleaving of single-event pushes, failed or retried
\* pushes and syncAll runs
C37_EventAppendedAtMostOnce ==
    \A pk \in Identities : \A e \in EventIds :
        Cardinality({i \in 1..Len(dbEvents) :
                        /\ dbEvents[i].public_key = pk
                        /\ DecryptEvent(dbEvents[i].ciphertext, pk) = e}) <= 1

\* C38: every pull terminates: while paginating, each page request uses an `after`
\* value strictly greater than the one before it, so against a finite log the fetch
\* loop ends after finitely many requests and the pull returns
C38_PullTerminates ==
    /\ [][(/\ pullTask["d1"]["P"].pc = "getResp"
           /\ pullTask'["d1"]["P"].pc = "get") =>
              pullTask'["d1"]["P"].after > pullTask["d1"]["P"].after]_vars
    /\ (pullTask["d1"]["P"].pc # "idle") ~> (pullTask["d1"]["P"].pc = "idle")

\* a pull that needed a second page request has returned
C38_Witness ==
    /\ pullTask["d1"]["P"].pc = "idle"
    /\ pullTask["d1"]["P"].outcome = "ok"
    /\ pullTask["d1"]["P"].fetches >= 2

\* C39: after any sequence of local appends and pulls, the local event log contains
\* each event id at most once
C39_LocalLogHasNoDuplicateId ==
    \A d \in Devices :
        \A i \in 1..Len(localOrder[d]) : \A j \in 1..Len(localOrder[d]) :
            i # j => localOrder[d][i] # localOrder[d][j]

\* ---------------------------------------------------------------- store properties
\* C40: sequence numbering is independent per identity: an append under one
\* identity leaves the rows (sequence numbers and ciphertexts) of every other
\* identity as they were, and the first event of every identity gets sequence 1
C40_SequencesIndependentPerIdentity ==
    [][dbEvents' # dbEvents =>
          LET row == dbEvents'[Len(dbEvents')]
          IN /\ Len(dbEvents') = Len(dbEvents) + 1
             /\ \A pk \in Identities \ {row.public_key} :
                   RowsOf(dbEvents', pk) = RowsOf(dbEvents, pk)
             /\ RowsOf(dbEvents, row.public_key) = {} =>
                   /\ row.seq = 1
                   /\ storeCall'.seq = 1]_vars

\* identity B's first append, made after an append of identity A, got sequence 1
C40_Witness ==
    /\ Len(dbEvents) >= 2
    /\ dbEvents[1].public_key = "A"
    /\ dbEvents[Len(dbEvents)].public_key = "B"
    /\ Cardinality(RowsOf(dbEvents, "B")) = 1
    /\ storeCall.op = "append"
    /\ storeCall.key = "B"
    /\ storeCall.seq = 1
====
